---- MODULE Spec2Model ----
(***************************************************************************)
(* A model of the code-generation agent of dave-bot: plan reconciliation   *)
(* (CliManager._reconcile_and_validate_analysis), the approval channel     *)
(* (ApprovalWebServer) and the status feed, and the orchestrator           *)
(* (CliManager.run).                                                       *)
(*                                                                         *)
(* Specifications:                                                         *)
(*   SpecReconcile  reconciliation applied to every bounded plan           *)
(***************************************************************************)
EXTENDS Integers, Sequences, FiniteSets, TLC

VARIABLES
    analysis,        \* the CodeAnalysis being handled (files_to_edit, files_to_create, generation_order, ...)
    all_repo_files,  \* the known-file list (tracked + untracked)
    force,           \* args.force: no server, nothing is put on the feed by _log_*
    status_queue,    \* CliManager.status_queue: events put and not yet fetched
    rcCalls,         \* history: number of reconciliation calls made on `analysis`
    rcInput,         \* history: the plan as the Planner returned it
    rcBefore,        \* history: the plan as it was before the latest reconciliation call
    rcResult,        \* history: return value of the latest reconciliation call
    decision_made,   \* ApprovalWebServer.decision_made (threading.Event): is it set
    user_decision,   \* ApprovalWebServer.user_decision
    user_data,       \* ApprovalWebServer.user_data
    pc,              \* where the orchestrator thread (main thread) is
    httpPc,          \* where the HTTP server thread is inside a request
    httpReq,         \* the decision (kind, data) of the POST being handled
    got,             \* the orchestrator's locals decision, data of the latest wait_for_decision
    posted,          \* history: number of set_decision calls begun
    window,          \* history: the decisions of the set_decision calls begun since the latest reset began
    tainted,         \* history: a set_decision call overlapped the latest reset_decision call
    dropped,         \* history: payloads of the set_decision calls that found the event set
    returns,         \* history: what each wait_for_decision returned, with the window it returned in
    server,          \* run()'s local server: TRUE while the ApprovalWebServer is serving
    task,            \* args.task
    original_branch, \* CliManager.original_branch
    run_state,       \* CliManager.run_state (its analysis is the variable `analysis`), or None
    user_feedback,   \* run()'s local user_feedback
    previous_analysis, \* run()'s local previous_analysis
    grep,            \* _get_analysis_with_retries: [attempt, results] of the round
    files_to_process, \* _execute_generation_loop: the live work queue
    idx,             \* _execute_generation_loop: i
    edited_files,    \* _execute_generation_loop: edited_files (aliased by run_state.completed_files)
    disk,            \* the RunState store: run_id -> persisted snapshot
    git,             \* the repository: [current, branches] and the log of VersionControl calls
    written,         \* the workspace writes made by write_file_content, in order
    published,       \* history: every event put on status_queue, in order
    delivered,       \* history: every event a GET /status returned, in order
    lastPoll,        \* history: the status code of the latest GET /status
    hist,            \* history of the run: waits since the latest reset, the review decision, rounds
    faults,          \* how many more calls to collaborators (store, git, file system) can fail
    busy,            \* the TCP ports of 127.0.0.1 some other socket is bound to
    port,            \* args.port
    actual_port,     \* run()'s local actual_port
    sent,            \* history: the body of the latest 200 answer of GET /status, as serialized
    retries,         \* _execute_review_loop: retries
    context_data,    \* _execute_review_loop: the paths context_data has content for
    feedback_for_reanalysis, \* _execute_review_loop: feedback_for_reanalysis
    all_reviews,     \* _execute_review_loop: all_reviews
    reanalysis_needed, \* _execute_review_loop: reanalysis_needed
    reviewing,       \* _execute_review_loop: how many entries of files_to_process the for loop has taken
    rvHist,          \* history: the re-analyses made and the Reviewer calls, in order
    user_message_queue, \* TeachingBotWebServer.user_message_queue
    user_message_event, \* TeachingBotWebServer.user_message_event (threading.Event): is it set
    message,         \* wait_for_user_message: its local message
    tbHist           \* history: the messages posted, accepted and returned, in order

rcHist == <<rcCalls, rcInput, rcBefore, rcResult>>

portVars == <<busy, port, actual_port>>

(* the state outside the plan, the decision slot and the run *)
reviewVars == <<retries, context_data, feedback_for_reanalysis, all_reviews, reanalysis_needed,
                reviewing, rvHist>>

teachVars == <<user_message_queue, user_message_event, message, tbHist>>

aside == <<portVars, sent, reviewVars, teachVars>>

planVars == <<analysis, all_repo_files, force, status_queue>>

channel == <<decision_made, user_decision, user_data>>

threads == <<pc, httpPc, httpReq, got>>

chHist == <<posted, window, tainted, dropped, returns>>

runLocals == <<server, task, original_branch, run_state, user_feedback, previous_analysis, grep>>

genLocals == <<files_to_process, idx, edited_files>>

world == <<disk, git, written>>

feedHist == <<published, delivered, lastPoll>>

runVars == <<runLocals, genLocals, world, feedHist, hist, faults>>

vars == <<planVars, rcHist, channel, threads, chHist, runVars, aside>>

----------------------------------------------------------------------------
(* Bounds *)

MaxEditLen == 2
MaxCreateLen == 1
MaxOrderLen == 2

(* The path universe, with the order Python's sorted() gives these strings. *)
Paths == {"a.py", "b.py", "c.py"}

PathRank == ("a.py" :> 1) @@ ("b.py" :> 2) @@ ("c.py" :> 3)

(* Rationales a Planner may give for a new file. *)
PlannerReasons == {"r1", "r2"}

----------------------------------------------------------------------------
(* Sequence helpers *)

Range(s) == {s[i] : i \in 1..Len(s)}

InList(x, s) == \E i \in 1..Len(s) : s[i] = x

SeqsUpTo(S, n) == UNION {[1..k -> S] : k \in 0..n}

(* Python's sorted(): a stable insertion sort, on the path's rank. *)
RECURSIVE InsertPath(_, _)
InsertPath(x, s) ==
    IF s = <<>> THEN <<x>>
    ELSE IF PathRank[x] < PathRank[Head(s)] THEN <<x>> \o s
    ELSE <<Head(s)>> \o InsertPath(x, Tail(s))

RECURSIVE SortedPaths(_)
SortedPaths(s) ==
    IF s = <<>> THEN <<>>
    ELSE InsertPath(s[Len(s)], SortedPaths(SubSeq(s, 1, Len(s) - 1)))

(* sorted(new_files_to_create, key=lambda f: f.file_path): stable on equal paths. *)
RECURSIVE InsertNewFile(_, _)
InsertNewFile(x, s) ==
    IF s = <<>> THEN <<x>>
    ELSE IF PathRank[x.file_path] < PathRank[Head(s).file_path] THEN <<x>> \o s
    ELSE <<Head(s)>> \o InsertNewFile(x, Tail(s))

RECURSIVE SortedNewFiles(_)
SortedNewFiles(s) ==
    IF s = <<>> THEN <<>>
    ELSE InsertNewFile(s[Len(s)], SortedNewFiles(SubSeq(s, 1, Len(s) - 1)))

IsSortedList(s) == \A i \in 1..(Len(s) - 1) : PathRank[s[i]] < PathRank[s[i + 1]]

(* The known-file lists: sorted(list(set(...))), and run() exits on an empty one. *)
RepoLists == {s \in SeqsUpTo(Paths, Cardinality(Paths)) : s # <<>> /\ IsSortedList(s)}

----------------------------------------------------------------------------
(* Plans *)

NewFile(p, r) == [file_path |-> p, reasoning |-> r]

PlaceholderReasoning == "File was added to the plan to match the generation order."

PlannerNewFiles == {NewFile(p, r) : p \in Paths, r \in PlannerReasons}

CodeAnalysis(edit, create, order) ==
    [files_to_edit |-> edit, files_to_create |-> create, generation_order |-> order]

PlannerPlans ==
    {CodeAnalysis(e, c, o) :
        e \in SeqsUpTo(Paths, MaxEditLen),
        c \in SeqsUpTo(PlannerNewFiles, MaxCreateLen),
        o \in SeqsUpTo(Paths, MaxOrderLen)}

CreatePaths(a) == {a.files_to_create[i].file_path : i \in 1..Len(a.files_to_create)}

PlannedFiles(a) == Range(a.files_to_edit) \cup CreatePaths(a)

OrderedFiles(a) == Range(a.generation_order)

(* existing_creations = {f.file_path: f for f in files_to_create}: the last entry of a path wins. *)
ExistingCreations(a) ==
    [p \in CreatePaths(a) |->
        LET places == {i \in 1..Len(a.files_to_create) : a.files_to_create[i].file_path = p}
            last == CHOOSE i \in places : \A j \in places : j <= i
        IN a.files_to_create[last]]

(* Variants of the loop, each with one slip, used to test the properties below. *)
RECURSIVE ReconcileLoopNoPlaceholder(_, _, _, _)
ReconcileLoopNoPlaceholder(order, repo, existing, acc) ==
    IF order = <<>> THEN acc
    ELSE
        LET file_path == Head(order)
            next ==
                IF InList(file_path, repo)
                THEN IF ~InList(file_path, acc.edit)
                     THEN [acc EXCEPT !.edit = Append(@, file_path)]
                     ELSE acc
                ELSE IF file_path \in DOMAIN existing
                     THEN [acc EXCEPT !.create = Append(@, existing[file_path])]
                     ELSE acc
        IN ReconcileLoopNoPlaceholder(Tail(order), repo, existing, next)

RECURSIVE ReconcileLoopSwapped(_, _, _, _)
ReconcileLoopSwapped(order, repo, existing, acc) ==
    IF order = <<>> THEN acc
    ELSE
        LET file_path == Head(order)
            next ==
                IF ~InList(file_path, repo)
                THEN IF ~InList(file_path, acc.edit)
                     THEN [acc EXCEPT !.edit = Append(@, file_path)]
                     ELSE acc
                ELSE IF file_path \in DOMAIN existing
                     THEN [acc EXCEPT !.create = Append(@, existing[file_path])]
                     ELSE [acc EXCEPT !.create = Append(@, NewFile(file_path, PlaceholderReasoning)),
                                      !.added = Append(@, file_path)]
        IN ReconcileLoopSwapped(Tail(order), repo, existing, next)

RECURSIVE ReconcileLoopAlwaysPlaceholder(_, _, _, _)
ReconcileLoopAlwaysPlaceholder(order, repo, existing, acc) ==
    IF order = <<>> THEN acc
    ELSE
        LET file_path == Head(order)
            next ==
                IF InList(file_path, repo)
                THEN IF ~InList(file_path, acc.edit)
                     THEN [acc EXCEPT !.edit = Append(@, file_path)]
                     ELSE acc
                ELSE [acc EXCEPT !.create = Append(@, NewFile(file_path, PlaceholderReasoning)),
                                 !.added = Append(@, file_path)]
        IN ReconcileLoopAlwaysPlaceholder(Tail(order), repo, existing, next)

(* The loop over generation_order: acc holds new_files_to_edit, new_files_to_create and
   the paths a placeholder was logged for, in loop order. *)
RECURSIVE ReconcileLoop(_, _, _, _)
ReconcileLoop(order, repo, existing, acc) ==
    IF order = <<>> THEN acc
    ELSE
        LET file_path == Head(order)
            next ==
                IF InList(file_path, repo)
                THEN IF ~InList(file_path, acc.edit)
                     THEN [acc EXCEPT !.edit = Append(@, file_path)]
                     ELSE acc
                ELSE IF file_path \in DOMAIN existing
                     THEN [acc EXCEPT !.create = Append(@, existing[file_path])]
                     ELSE [acc EXCEPT !.create = Append(@, NewFile(file_path, PlaceholderReasoning)),
                                      !.added = Append(@, file_path)]
        IN ReconcileLoop(Tail(order), repo, existing, next)

(* Variants of the whole call: one that rebuilds the lists on top of the old ones, one
   that has no early return. *)
ReconcileKeepOld(a, repo) ==
    IF PlannedFiles(a) = OrderedFiles(a)
    THEN [analysis |-> a, ok |-> TRUE, mismatch |-> FALSE, added |-> <<>>, removed |-> {}]
    ELSE
        LET acc == ReconcileLoop(a.generation_order, repo, ExistingCreations(a),
                                 [edit |-> a.files_to_edit, create |-> a.files_to_create,
                                  added |-> <<>>])
        IN [analysis |-> [a EXCEPT !.files_to_edit = SortedPaths(acc.edit),
                                   !.files_to_create = SortedNewFiles(acc.create)],
            ok |-> TRUE,
            mismatch |-> TRUE,
            added |-> acc.added,
            removed |-> {}]

ReconcileAlwaysRebuild(a, repo) ==
    LET acc == ReconcileLoop(a.generation_order, repo, ExistingCreations(a),
                             [edit |-> <<>>, create |-> <<>>, added |-> <<>>])
    IN [analysis |-> [a EXCEPT !.files_to_edit = SortedPaths(acc.edit),
                               !.files_to_create = SortedNewFiles(acc.create)],
        ok |-> TRUE,
        mismatch |-> TRUE,
        added |-> acc.added,
        removed |-> PlannedFiles(a) \ OrderedFiles(a)]

(* _reconcile_and_validate_analysis: the plan after the call, the value returned and what
   was logged as a warning (mismatch, one per placeholder, one per removed path). *)
Reconcile(a, repo) ==
    IF PlannedFiles(a) = OrderedFiles(a)
    THEN [analysis |-> a, ok |-> TRUE, mismatch |-> FALSE, added |-> <<>>, removed |-> {}]
    ELSE
        LET acc == ReconcileLoop(a.generation_order, repo, ExistingCreations(a),
                                 [edit |-> <<>>, create |-> <<>>, added |-> <<>>])
        IN [analysis |-> [a EXCEPT !.files_to_edit = SortedPaths(acc.edit),
                                   !.files_to_create = SortedNewFiles(acc.create)],
            ok |-> TRUE,
            mismatch |-> TRUE,
            added |-> acc.added,
            removed |-> PlannedFiles(a) \ OrderedFiles(a)]

(* The cli_log events the call's _log_warning calls put on the feed. The removed paths are
   logged in the iteration order of a Python set, which is any order. *)
Perms(S) == {s \in [1..Cardinality(S) -> S] : \A i, j \in 1..Cardinality(S) : i # j => s[i] # s[j]}

CliLog(cls, what) == [status |-> "cli_log", cssClass |-> cls, message |-> what]

ReconcileEvents(r, removedOrder) ==
    IF ~r.mismatch THEN <<>>
    ELSE <<CliLog("warning", <<"mismatch">>)>>
         \o [i \in 1..Len(r.added) |-> CliLog("warning", <<"adding", r.added[i]>>)]
         \o [i \in 1..Len(removedOrder) |-> CliLog("warning", <<"removing", removedOrder[i]>>)]
         \o <<CliLog("", <<"reconciled">>)>>

(* _log_info/_log_warning/_log_error put on the feed unless --force. *)
LogPut(queue, events) == IF force THEN queue ELSE queue \o events

----------------------------------------------------------------------------
(* The approval channel: ApprovalWebServer *)

(* Python's None, as a decision kind and as a payload. *)
None == "None"

NoData == <<>>

NoObject == <<>>

NoDecision == <<None, NoData>>

(* The kinds run() dispatches on, and the routes ApprovalHandler.do_POST accepts. *)
DecisionKinds ==
    {"approve", "reject", "feedback", "user_input",
     "resume_run", "delete_run", "generate_task", "start_analysis"}

PostRoutes == {"approve", "reject", "feedback", "user_input"}

(* __init__: the event is clear and both fields are None. *)
ChannelInit ==
    /\ decision_made = FALSE
    /\ user_decision = None
    /\ user_data = NoData

ChHistInit ==
    /\ posted = 0
    /\ window = <<>>
    /\ tainted = FALSE
    /\ dropped = {}
    /\ returns = <<>>

SlotOpenAlways == TRUE

(* set_decision's test: not self.decision_made.is_set() *)
SlotOpen == ~decision_made

(* The variables of run(), before run() is called. *)
(* no feedback for the Planner (Python None) *)
NoFeedback == <<>>

HistInit ==
    [unreset |-> FALSE,    \* a wait_for_decision has returned and no reset_decision followed yet
     replayed |-> FALSE,   \* a wait_for_decision returned while `unreset`
     review |-> None,      \* the decision kind the latest plan-review wait returned
     reviewText |-> "",    \* and its feedback text
     rounds |-> 0,         \* passes of the startup loop that went back to waiting
     questions |-> 0,      \* questions the Planner has asked
     store |-> <<>>,       \* the calls made to the RunState store, in order
     planner |-> <<>>,     \* the inputs of the Planner invocations of the current round, in order
     roundCalls |-> 0,     \* Planner invocations in the current analysis round
     phases |-> <<>>,      \* the phases the run has gone through, in order
     resumed |-> FALSE,    \* the run was loaded from a snapshot
     generated |-> <<>>,   \* the paths the Generator was invoked for, in order
     snapshots |-> <<>>,   \* the snapshots persisted under the run's id, oldest first
     saveFailed |-> FALSE, \* a save_run_state call of the run has failed
     loop |-> [returned |-> FALSE, unprocessed |-> <<>>],  \* what the generation loop returned
     dropped |-> {},       \* the paths of add_to_generation_queue requests that were not appended
     input |-> [kind |-> None, text |-> None],  \* what the latest question to the user got back
     outcome |-> None,     \* how run() was left
     posts |-> <<>>]       \* the POST requests do_POST has answered: route and status code

(* code_agent.py, line 44 *)
DEFAULT_SERVER_PORT == 8080

(* find_available_port: the default of max_retries *)
DefaultMaxRetries == 100

(* find_available_port returned None *)
NoPort == -1

(* no other socket is bound, nothing probed yet *)
PortsOpen ==
    /\ busy = {}
    /\ port = DEFAULT_SERVER_PORT
    /\ actual_port = NoPort

(* the review loop has not been entered *)
ReviewIdle ==
    /\ retries = 0
    /\ context_data = {}
    /\ feedback_for_reanalysis = ""
    /\ all_reviews = <<>>
    /\ reanalysis_needed = FALSE
    /\ reviewing = 0
    /\ rvHist = [reanalyses |-> 0, calls |-> <<>>]

(* TeachingBotWebServer.__init__, lines 30-32 *)
TeachIdle ==
    /\ user_message_queue = <<>>
    /\ user_message_event = FALSE
    /\ message = None
    /\ tbHist = [posts |-> <<>>, accepted |-> <<>>, returned |-> <<>>]

AsideIdle == PortsOpen /\ sent = NoObject /\ ReviewIdle /\ TeachIdle

RunIdle ==
    /\ AsideIdle
    /\ server = FALSE
    /\ task = "cli-task"
    /\ original_branch = ""
    /\ run_state = NoObject
    /\ user_feedback = NoFeedback
    /\ previous_analysis = NoObject
    /\ grep = [attempt |-> 0, results |-> <<>>]
    /\ files_to_process = <<>>
    /\ idx = 0
    /\ edited_files = <<>>
    /\ disk = <<>>
    /\ git = [current |-> "main", branches |-> {"main", "develop", "dave-bot/saved"}, calls |-> <<>>]
    /\ written = <<>>
    /\ published = <<>>
    /\ delivered = <<>>
    /\ lastPoll = [code |-> 0, taken |-> 0]
    /\ hist = HistInit
    /\ faults = 0

----------------------------------------------------------------------------
(* SpecReconcile: every bounded plan and known-file list, reconciled up to twice. *)

MaxReconcileCalls == 2

InitReconcile ==
    /\ analysis \in PlannerPlans
    /\ all_repo_files \in RepoLists
    /\ force = FALSE
    /\ status_queue = <<>>
    /\ rcCalls = 0
    /\ rcInput = analysis
    /\ rcBefore = analysis
    /\ rcResult = FALSE
    /\ ChannelInit
    /\ pc = "reconcile"
    /\ httpPc = "idle"
    /\ httpReq = NoDecision
    /\ got = NoDecision
    /\ ChHistInit
    /\ RunIdle

ReconcileAnalysis ==
    /\ rcCalls < MaxReconcileCalls
    /\ LET r == Reconcile(analysis, all_repo_files)
       IN /\ analysis' = r.analysis
          /\ rcResult' = r.ok
          /\ \E ord \in Perms(r.removed) :
                status_queue' = LogPut(status_queue, ReconcileEvents(r, ord))
    /\ rcBefore' = analysis
    /\ rcCalls' = rcCalls + 1
    /\ UNCHANGED <<all_repo_files, force, rcInput, channel, threads, chHist, runVars, aside>>

NextReconcile == ReconcileAnalysis

SpecReconcile == InitReconcile /\ [][NextReconcile]_vars

----------------------------------------------------------------------------
(* Properties of reconciliation (SpecReconcile) *)

Mismatch(a) == PlannedFiles(a) # OrderedFiles(a)

(* C1: after a reconciliation that returned True, the set of paths of generation_order
   equals files_to_edit united with the file_path of every files_to_create entry. *)
C1_OrderEqualsPlanned ==
    (rcCalls >= 1 /\ rcResult) => OrderedFiles(analysis) = PlannedFiles(analysis)

C1_Witness ==
    /\ rcCalls = 1
    /\ rcResult
    /\ Mismatch(rcInput)
    /\ \E p \in OrderedFiles(rcInput) : p \notin PlannedFiles(rcInput) /\ ~InList(p, all_repo_files)
    /\ \E p \in PlannedFiles(rcInput) : p \notin OrderedFiles(rcInput)

(* C2: reconciling an already reconciled plan again, with the same known-file list,
   changes none of files_to_edit, files_to_create and generation_order. *)
C2_Idempotent ==
    rcCalls >= 2 =>
        /\ analysis.files_to_edit = rcBefore.files_to_edit
        /\ analysis.files_to_create = rcBefore.files_to_create
        /\ analysis.generation_order = rcBefore.generation_order

C2_Witness ==
    /\ rcCalls = 2
    /\ rcBefore # rcInput
    /\ analysis = rcBefore
    /\ \E p \in PlannedFiles(rcInput) : p \notin OrderedFiles(rcInput)

Classified(a, repo) ==
    /\ \A p \in OrderedFiles(a) :
          /\ InList(p, repo) => InList(p, a.files_to_edit)
          /\ ~InList(p, repo) => p \in CreatePaths(a)
    /\ \A p \in CreatePaths(a) : ~InList(p, repo)
    /\ \A p \in Range(a.files_to_edit) : InList(p, repo)

(* C3 as stated: after reconciliation of any plan, every path of generation_order that is
   known is in files_to_edit and every other one is in files_to_create, no files_to_create
   path is known and every files_to_edit path is; also for plans whose sets already match. *)
C3_ClassifiedAlways ==
    rcCalls >= 1 => Classified(analysis, all_repo_files)

(* C3 amended: the classification holds after reconciliation of a plan whose edit/create
   path set differs from the set of generation_order; a plan whose sets already match is
   left as the Planner classified it. *)
C3_ClassifiedOnMismatch ==
    rcCalls >= 1 =>
        IF Mismatch(rcInput)
        THEN Classified(analysis, all_repo_files)
        ELSE /\ analysis.files_to_edit = rcInput.files_to_edit
             /\ analysis.files_to_create = rcInput.files_to_create

C3_Witness ==
    /\ rcCalls = 1
    /\ Mismatch(rcInput)
    /\ ~Classified(rcInput, all_repo_files)
    /\ \E p \in OrderedFiles(analysis) : InList(p, all_repo_files)
    /\ \E p \in OrderedFiles(analysis) : ~InList(p, all_repo_files)

(* C4: when the edit/create path set already equals the set of generation_order, the call
   returns True, leaves the three lists exactly as they were and puts no event on the feed. *)
C4_NoOpWhenMatching ==
    (rcCalls >= 1 /\ ~Mismatch(rcInput)) =>
        /\ rcResult
        /\ analysis = rcInput
        /\ status_queue = <<>>

C4_Witness ==
    /\ rcCalls = 1
    /\ ~Mismatch(rcInput)
    /\ rcInput.files_to_edit = <<"b.py", "a.py">>
    /\ analysis = rcInput

(* The paths of generation_order that are unknown and have no files_to_create entry. *)
Unplanned(a, repo) ==
    {p \in OrderedFiles(a) : ~InList(p, repo) /\ p \notin CreatePaths(a)}

HasPlaceholder(a, p) ==
    \E i \in 1..Len(a.files_to_create) :
        a.files_to_create[i] = NewFile(p, PlaceholderReasoning)

KeepsPlannerEntries(before, after) ==
    \A i \in 1..Len(after.files_to_create) :
        after.files_to_create[i].file_path \in CreatePaths(before)
            => InList(after.files_to_create[i], before.files_to_create)

(* C5 as stated: every path of generation_order that is unknown and has no files_to_create
   entry gets a placeholder entry, the Planner's own entries are kept and generation_order
   is unchanged. *)
C5_PlaceholderAlways ==
    rcCalls >= 1 =>
        /\ \A p \in Unplanned(rcInput, all_repo_files) : HasPlaceholder(analysis, p)
        /\ KeepsPlannerEntries(rcInput, analysis)
        /\ analysis.generation_order = rcInput.generation_order

(* C5 amended: the placeholder is added when, in addition, the plan's edit/create path set
   differs from the set of generation_order (as it does whenever the path is not listed in
   files_to_edit either); the other two parts hold in every case. *)
C5_PlaceholderOnMismatch ==
    rcCalls >= 1 =>
        /\ Mismatch(rcInput) =>
              \A p \in Unplanned(rcInput, all_repo_files) : HasPlaceholder(analysis, p)
        /\ \A p \in Unplanned(rcInput, all_repo_files) :
              ~InList(p, rcInput.files_to_edit) => HasPlaceholder(analysis, p)
        /\ KeepsPlannerEntries(rcInput, analysis)
        /\ analysis.generation_order = rcInput.generation_order

C5_Witness ==
    /\ rcCalls = 1
    /\ rcInput.files_to_create = <<NewFile("b.py", "r1")>>
    /\ rcInput.generation_order = <<"b.py", "c.py">>
    /\ all_repo_files = <<"a.py">>
    /\ analysis.files_to_create = <<NewFile("b.py", "r1"), NewFile("c.py", PlaceholderReasoning)>>

----------------------------------------------------------------------------
(* SpecChannel: the channel alone, statement by statement. The HTTP server thread (a
   TCPServer: one request at a time) runs set_decision for each POST; the orchestrator
   thread waits, and then either resets before it waits again, waits again without a reset
   (a startup-loop pass with no matching branch) or stops. *)

MaxPosts == 3
MaxWaits == 3

Payload(n) == [id |-> n]

InitChannel ==
    /\ analysis = CodeAnalysis(<<>>, <<>>, <<>>)
    /\ all_repo_files = <<"a.py">>
    /\ force = FALSE
    /\ status_queue = <<>>
    /\ rcCalls = 0
    /\ rcInput = analysis
    /\ rcBefore = analysis
    /\ rcResult = FALSE
    /\ ChannelInit
    /\ pc = "wait"
    /\ httpPc = "idle"
    /\ httpReq = NoDecision
    /\ got = NoDecision
    /\ ChHistInit
    /\ RunIdle

InReset == pc \in {"reset_user_decision", "reset_user_data"}

(* do_POST calls set_decision(action, data); its first statement tests the event. *)
SetDecisionTest ==
    /\ httpPc = "idle"
    /\ posted < MaxPosts
    /\ \E kind \in PostRoutes :
          LET d == <<kind, Payload(posted + 1)>>
          IN /\ httpReq' = d
             /\ window' = Append(window, d)
             /\ IF SlotOpen
                THEN httpPc' = "set_user_decision" /\ UNCHANGED dropped
                ELSE httpPc' = "idle" /\ dropped' = dropped \cup {d[2]}
    /\ posted' = posted + 1
    /\ tainted' = (tainted \/ InReset)
    /\ UNCHANGED <<runVars, planVars, rcHist, aside, channel, pc, got, returns>>

(* self.user_decision = decision *)
SetDecisionKind ==
    /\ httpPc = "set_user_decision"
    /\ user_decision' = httpReq[1]
    /\ httpPc' = "set_user_data"
    /\ UNCHANGED <<runVars, planVars, rcHist, aside, decision_made, user_data, pc, httpReq, got, chHist>>

(* self.user_data = data *)
SetDecisionData ==
    /\ httpPc = "set_user_data"
    /\ user_data' = httpReq[2]
    /\ httpPc' = "set_event"
    /\ UNCHANGED <<runVars, planVars, rcHist, aside, decision_made, user_decision, pc, httpReq, got, chHist>>

(* self.decision_made.set() *)
SetDecisionEvent ==
    /\ httpPc = "set_event"
    /\ decision_made' = TRUE
    /\ httpPc' = "idle"
    /\ UNCHANGED <<runVars, planVars, rcHist, aside, user_decision, user_data, pc, httpReq, got, chHist>>

(* wait_for_decision: self.decision_made.wait() returns once the event is set *)
WaitEvent ==
    /\ pc = "wait"
    /\ decision_made
    /\ pc' = "read_user_decision"
    /\ UNCHANGED <<runVars, planVars, rcHist, aside, channel, httpPc, httpReq, got, chHist>>

(* return self.user_decision, self.user_data: two reads *)
WaitReadKind ==
    /\ pc = "read_user_decision"
    /\ got' = <<user_decision, got[2]>>
    /\ pc' = "read_user_data"
    /\ UNCHANGED <<runVars, planVars, rcHist, aside, channel, httpPc, httpReq, chHist>>

WaitReadData ==
    /\ pc = "read_user_data"
    /\ got' = <<got[1], user_data>>
    /\ returns' = Append(returns, [got |-> got', window |-> window, tainted |-> tainted])
    /\ pc' = "dispatch"
    /\ UNCHANGED <<runVars, planVars, rcHist, aside, channel, httpPc, httpReq, posted, window, tainted, dropped>>

(* The caller: a branch that resets, a pass that waits again without a reset, or the end. *)
CallerResets ==
    /\ pc = "dispatch"
    /\ pc' = "reset_clear"
    /\ UNCHANGED <<runVars, planVars, rcHist, aside, channel, httpPc, httpReq, got, chHist>>

CallerWaitsAgain ==
    /\ pc = "dispatch"
    /\ Len(returns) < MaxWaits
    /\ pc' = "wait"
    /\ UNCHANGED <<runVars, planVars, rcHist, aside, channel, httpPc, httpReq, got, chHist>>

CallerStops ==
    /\ pc = "dispatch"
    /\ pc' = "done"
    /\ UNCHANGED <<runVars, planVars, rcHist, aside, channel, httpPc, httpReq, got, chHist>>

(* reset_decision: self.decision_made.clear() *)
ResetClear ==
    /\ pc = "reset_clear"
    /\ decision_made' = FALSE
    /\ window' = <<>>
    /\ tainted' = (httpPc # "idle")
    /\ pc' = "reset_user_decision"
    /\ UNCHANGED <<runVars, planVars, rcHist, aside, user_decision, user_data, httpPc, httpReq, got,
                   posted, dropped, returns>>

(* self.user_decision = None *)
ResetKind ==
    /\ pc = "reset_user_decision"
    /\ user_decision' = None
    /\ pc' = "reset_user_data"
    /\ UNCHANGED <<runVars, planVars, rcHist, aside, decision_made, user_data, httpPc, httpReq, got, chHist>>

(* self.user_data = None; the caller then waits for the next decision *)
ResetData ==
    /\ pc = "reset_user_data"
    /\ user_data' = NoData
    /\ pc' = IF Len(returns) < MaxWaits THEN "wait" ELSE "done"
    /\ UNCHANGED <<runVars, planVars, rcHist, aside, decision_made, user_decision, httpPc, httpReq, got, chHist>>

NextChannel ==
    \/ SetDecisionTest
    \/ SetDecisionKind
    \/ SetDecisionData
    \/ SetDecisionEvent
    \/ WaitEvent
    \/ WaitReadKind
    \/ WaitReadData
    \/ CallerResets
    \/ CallerWaitsAgain
    \/ CallerStops
    \/ ResetClear
    \/ ResetKind
    \/ ResetData

SpecChannel == InitChannel /\ [][NextChannel]_vars

(* C6: of the decisions posted since the slot was last reset (with no reset_decision call
   overlapping them), the first is what wait_for_decision returns, with its own payload;
   a post that found the slot occupied changes nothing and is never returned by any wait. *)
C6_FirstDecisionWins ==
    \A i \in 1..Len(returns) :
        /\ (~returns[i].tainted /\ Len(returns[i].window) >= 1)
              => returns[i].got = returns[i].window[1]
        /\ returns[i].got[2] \notin dropped

C6_Witness ==
    /\ Len(returns) >= 2
    /\ ~returns[2].tainted
    /\ Len(returns[2].window) >= 2
    /\ returns[2].got = returns[2].window[1]
    /\ returns[2].window[2][2] \in dropped
    /\ returns[2].window[2][1] # returns[2].window[1][1]

----------------------------------------------------------------------------
(* Spec: one call of CliManager.run(), with the HTTP server thread. Decisions of every kind
   run() dispatches on reach set_decision; each action of the orchestrator is the code
   between two points where it blocks or calls a collaborator. *)

MaxRounds == 2
MaxFaults == 1

(* The payloads the UI posts, per kind; a POST without a body gives data = None. *)
Decisions ==
    {<<"approve", [use_flash_model |-> TRUE, additional_context_files |-> <<"b.py">>]>>,
     <<"reject", NoData>>,
     <<"feedback", [feedback |-> "fb", additional_context_files |-> <<"b.py">>]>>,
     <<"feedback", [feedback |-> ""]>>,
     <<"user_input", [user_input |-> "ans"]>>,
     <<"user_input", [user_input |-> ""]>>,
     <<"resume_run", [run_id |-> "run-saved"]>>,
     <<"resume_run", NoData>>,
     <<"delete_run", [run_id |-> "run-saved"]>>,
     <<"generate_task", [prompt |-> "p"]>>,
     <<"start_analysis", [task |-> "cli-task"]>>,
     <<"start_analysis", NoData>>}

IsDict(data) == data # NoData

(* data.get(key) if isinstance(data, dict) else None *)
Get(data, key) == IF IsDict(data) /\ key \in DOMAIN data THEN data[key] ELSE None

(* the truth value of an optional string *)
Truthy(v) == v # None /\ v # ""

Event(status) == [status |-> status]

(* status_queue.put of each event, in order *)
Put(events) ==
    /\ status_queue' = status_queue \o events
    /\ published' = published \o events

(* the events of _log_info/_log_warning/_log_error calls: none under --force *)
Logs(events) == IF force THEN <<>> ELSE events

(* The plans the Planner answers with in a run: a.py is known, c.py is new. *)
RunRepo == <<"a.py", "b.py">>

RunBranch == "dave-bot/feat"

RunPlan(edit, create, order) ==
    [files_to_edit |-> edit, files_to_create |-> create, generation_order |-> order,
     relevant_files |-> <<"c.py">>, use_flash_model |-> FALSE, branch_name |-> RunBranch,
     user_request |-> "", additional_grep_queries_needed |-> <<>>]

(* the branches of the repository when the process starts: a saved run has left its own *)
InitialBranches == {"main", "develop", "dave-bot/saved"}

(* a plan whose lists agree, one whose order names an unplanned file, twice, and whose
   branch exists already, and an empty one *)
RunPlans ==
    {RunPlan(<<"a.py">>, <<NewFile("c.py", "r1")>>, <<"a.py", "c.py">>),
     [RunPlan(<<"a.py">>, <<>>, <<"c.py", "c.py">>) EXCEPT !.branch_name = "dave-bot/saved"],
     RunPlan(<<>>, <<>>, <<>>)}

(* The RunState store (save_run_state, load_run_state, delete_run_state). *)
SavedRun ==
    [run_id |-> "run-saved", task |-> "saved-task", original_branch |-> "develop",
     analysis |-> [files_to_edit |-> <<"a.py", "b.py">>, files_to_create |-> <<NewFile("c.py", "r1")>>,
                   generation_order |-> <<"c.py", "b.py", "a.py">>, relevant_files |-> <<>>,
                   use_flash_model |-> FALSE, branch_name |-> "dave-bot/saved",
                   user_request |-> "", additional_grep_queries_needed |-> <<>>],
     completed_files |-> <<"c.py">>, generated_code_cache |-> {"c.py"}]

InitialDisks == {<<>>, ("run-saved" :> SavedRun)}

SaveRunState(d, state) == (state.run_id :> state) @@ d

LoadRunState(d, run_id) == IF run_id \in DOMAIN d THEN d[run_id] ELSE NoObject

DeleteRunState(d, run_id) == [r \in (DOMAIN d) \ {run_id} |-> d[r]]

(* The snapshot of run_state with the analysis it points to. *)
Snapshot(state, a) == [state EXCEPT !.analysis = a]

RunStart(mayFail) ==
    /\ analysis = NoObject
    /\ all_repo_files = RunRepo
    /\ force \in BOOLEAN
    /\ status_queue = <<>>
    /\ rcCalls = 0
    /\ rcInput = NoObject
    /\ rcBefore = NoObject
    /\ rcResult = FALSE
    /\ ChannelInit
    /\ pc = "setup"
    /\ httpPc = "idle"
    /\ httpReq = NoDecision
    /\ got = NoDecision
    /\ ChHistInit
    /\ server = FALSE
    /\ task = "cli-task"
    /\ original_branch = ""
    /\ run_state = NoObject
    /\ user_feedback = NoFeedback
    /\ previous_analysis = NoObject
    /\ grep = [attempt |-> 0, results |-> <<>>]
    /\ files_to_process = <<>>
    /\ idx = 0
    /\ edited_files = <<>>
    /\ disk \in InitialDisks
    /\ git = [current |-> "main", branches |-> {"main", "develop", "dave-bot/saved"}, calls |-> <<>>]
    /\ written = <<>>
    /\ published = <<>>
    /\ delivered = <<>>
    /\ lastPoll = [code |-> 0, taken |-> 0]
    /\ hist = HistInit
    /\ faults = mayFail
    /\ sent = NoObject
    /\ ReviewIdle
    /\ TeachIdle

RunInit(mayFail) == RunStart(mayFail) /\ PortsOpen

Init == RunInit(MaxFaults)

InitFeed == RunInit(0)

(* ---- the HTTP server thread ---- *)

(* ApprovalWebServer.set_decision, called by do_POST *)
SetDecision(kind, data) ==
    IF SlotOpen
    THEN /\ user_decision' = kind
         /\ user_data' = data
         /\ decision_made' = TRUE
    ELSE UNCHANGED channel

PostDecision ==
    /\ server
    /\ \E d \in Decisions : SetDecision(d[1], d[2])
    /\ UNCHANGED <<planVars, rcHist, aside, threads, chHist, runVars>>

(* do_POST, line 86: the paths it accepts, without the leading slash *)
Routed(route) == route \in PostRoutes

(* ApprovalHandler.do_POST: a routed request calls set_decision with the route as the kind
   and the body as the data and is answered 200; any other path is answered 404 *)
DoPost ==
    /\ server
    /\ Len(hist.posts) < MaxPosts
    /\ \E d \in Decisions :
          IF Routed(d[1])
          THEN /\ SetDecision(d[1], d[2])
               /\ hist' = [hist EXCEPT !.posts = Append(@, [route |-> d[1], code |-> 200])]
          ELSE /\ UNCHANGED channel
               /\ hist' = [hist EXCEPT !.posts = Append(@, [route |-> d[1], code |-> 404])]
    /\ UNCHANGED <<planVars, rcHist, aside, threads, chHist, runLocals, genLocals, world, feedHist,
                   faults>>

QueueGetLast(q) == [item |-> q[Len(q)], rest |-> SubSeq(q, 1, Len(q) - 1)]

(* queue.Queue.get on a queue that holds an item: the oldest one, removed *)
QueueGet(q) == [item |-> Head(q), rest |-> Tail(q)]

(* the events whose completed_files is the loop's list edited_files itself, not a copy *)
CarriesEditedFiles(update) == update.status \in {"writing", "done"}

(* json.dumps(update), line 870: a list the event refers to is read when it is serialized *)
json_dumps(update) ==
    IF CarriesEditedFiles(update) THEN [update EXCEPT !.completed_files = edited_files]
    ELSE update

(* GET /status: status_queue.get(block=True, timeout=28), answered 200 with the event *)
PollStatus ==
    /\ server
    /\ status_queue # <<>>
    /\ LET g == QueueGet(status_queue)
       IN /\ status_queue' = g.rest
          /\ delivered' = Append(delivered, g.item)
          /\ sent' = json_dumps(g.item)
    /\ lastPoll' = [code |-> 200, taken |-> Len(status_queue) - Len(status_queue')]
    /\ UNCHANGED <<analysis, all_repo_files, force, rcHist, portVars, reviewVars, teachVars, channel, threads, chHist,
                   runLocals, genLocals, world, published, hist, faults>>

(* GET /status: queue.Empty after the timeout, answered 204 *)
PollTimeout ==
    /\ server
    /\ status_queue = <<>>
    /\ lastPoll' = [code |-> 204, taken |-> 0]
    /\ UNCHANGED <<planVars, rcHist, aside, channel, threads, chHist,
                   runLocals, genLocals, world, published, delivered, hist, faults>>

(* ---- the orchestrator thread ---- *)

(* wait_for_decision returning, seen by the history *)
Waited(h) == [h EXCEPT !.unreset = TRUE, !.replayed = @ \/ h.unreset]

(* ApprovalWebServer.reset_decision *)
ResetDecision ==
    /\ decision_made' = FALSE
    /\ user_decision' = None
    /\ user_data' = NoData

Reset(h) == [h EXCEPT !.unreset = FALSE]

(* run() is left: by a return, or by an exception ("raised") *)
Ended(h, outcome) == [h EXCEPT !.outcome = outcome]

(* run(), lines 822-895: the setup up to the first wait. *)
find_available_port_last(start_port, max_retries) ==
    LET free == {p \in start_port..(start_port + max_retries - 1) : p \notin busy}
    IN IF free = {} THEN NoPort ELSE CHOOSE p \in free : \A q \in free : q <= p

(* find_available_port, web_server_utils.py lines 122-145: the probes from the i-th on *)
RECURSIVE ProbeFrom(_, _, _)
ProbeFrom(start_port, max_retries, i) ==
    IF i >= max_retries THEN NoPort
    ELSE IF (start_port + i) \notin busy THEN start_port + i
    ELSE ProbeFrom(start_port, max_retries, i + 1)

find_available_port(start_port, max_retries) == ProbeFrom(start_port, max_retries, 0)

(* run(), lines 822-862: the setup fails: no branch, no files, no port or no viewer *)
SetupFails ==
    /\ pc = "setup"
    /\ LET found == find_available_port(port, DefaultMaxRetries)
       IN \/ /\ \E why \in {"no branch", "no files"} : Put(Logs(<<CliLog("error", <<why>>)>>))
             /\ UNCHANGED actual_port
          \/ /\ ~force
             /\ found = NoPort
             /\ Put(Logs(<<CliLog("error", <<"no port">>)>>))
             /\ UNCHANGED actual_port
          \/ /\ ~force
             /\ found # NoPort
             /\ actual_port' = found
             /\ Put(Logs(<<CliLog("error", <<"no viewer">>)>>))
    /\ pc' = "done"
    /\ hist' = Ended(hist, "setup failed")
    /\ UNCHANGED <<analysis, all_repo_files, force, rcHist, busy, port, sent, reviewVars, teachVars, channel, httpPc, httpReq, got, chHist,
                   runLocals, genLocals, world, delivered, lastPoll, faults>>

SetupDone ==
    /\ pc = "setup"
    /\ LET found == find_available_port(port, DefaultMaxRetries)
       IN IF force THEN UNCHANGED actual_port
          ELSE found # NoPort /\ actual_port' = found
    /\ original_branch' = git.current
    /\ server' = ~force
    /\ Put(Logs(<<CliLog("", <<"original branch", git.current>>), CliLog("", <<"viewer running">>)>>
                \o (IF disk = <<>> THEN <<[status |-> "awaiting_task", initial_task |-> task]>>
                                   ELSE <<>>)))
    /\ pc' = IF force THEN "new_run" ELSE "startup"
    /\ UNCHANGED <<analysis, all_repo_files, force, rcHist, busy, port, sent, reviewVars, teachVars, channel, httpPc, httpReq, got, chHist,
                   task, run_state, user_feedback, previous_analysis, grep,
                   genLocals, world, delivered, lastPoll, hist, faults>>

(* the run may go round once more: back to the startup wait, or to the Planner with an answer *)
RoundsLeft == hist.rounds + hist.questions < MaxRounds

(* whether a call to a collaborator succeeds *)
Outcomes == IF faults > 0 THEN BOOLEAN ELSE {TRUE}

(* the failures of a step, taken off what can still fail *)
Failures(results) ==
    LET failed == Cardinality({i \in 1..Len(results) : ~results[i]})
    IN /\ failed <= faults
       /\ faults' = faults - failed

(* what no step of the orchestrator changes *)
httpSide == <<all_repo_files, force, rcHist, aside, httpPc, httpReq, got, chHist, delivered, lastPoll>>

serverSide == <<httpSide, faults>>

Stored(h, call) == [h EXCEPT !.store = Append(@, call)]

(* the run enters a phase *)
Phase(h, p) ==
    IF h.phases # <<>> /\ h.phases[Len(h.phases)] = p THEN h
    ELSE [h EXCEPT !.phases = Append(@, p)]

(* what a snapshot says about progress *)
Snap(state) ==
    [completed_files |-> state.completed_files,
     generation_order |-> state.analysis.generation_order]

Persisted(h, state) == [h EXCEPT !.snapshots = Append(@, Snap(state))]

(* run(), lines 897-937: one pass of the startup loop, per branch. *)
StartupResume ==
    /\ pc = "startup" /\ decision_made
    /\ user_decision = "resume_run" /\ Truthy(Get(user_data, "run_id"))
    /\ LET run_id == Get(user_data, "run_id")
           loaded == LoadRunState(disk, run_id)
           h == Stored(Waited(hist), "load")
       IN IF loaded # NoObject
          THEN /\ run_state' = loaded
               /\ analysis' = loaded.analysis
               /\ task' = loaded.task
               /\ Put(Logs(<<CliLog("", <<"resuming", run_id>>)>>))
               /\ ResetDecision
               /\ hist' = [Persisted(Reset(h), loaded) EXCEPT !.resumed = TRUE]
               /\ pc' = "resume"
          ELSE /\ RoundsLeft
               /\ Put(Logs(<<CliLog("error", <<"could not load", run_id>>)>>))
               /\ ResetDecision
               /\ hist' = [Reset(h) EXCEPT !.rounds = @ + 1]
               /\ UNCHANGED <<run_state, analysis, task, pc>>
    /\ UNCHANGED <<serverSide, server, original_branch, user_feedback, previous_analysis, grep,
                   genLocals, world>>

StartupDelete ==
    /\ pc = "startup" /\ decision_made
    /\ user_decision = "delete_run" /\ Truthy(Get(user_data, "run_id"))
    /\ RoundsLeft
    /\ LET run_id == Get(user_data, "run_id")
       IN /\ disk' = DeleteRunState(disk, run_id)
          /\ Put(Logs(IF run_id \in DOMAIN disk THEN <<CliLog("", <<"deleted", run_id>>)>> ELSE <<>>))
    /\ ResetDecision
    /\ hist' = [Reset(Stored(Waited(hist), "delete")) EXCEPT !.rounds = @ + 1]
    /\ UNCHANGED <<serverSide, analysis, pc, runLocals, genLocals, git, written>>

StartupGenerateTask ==
    /\ pc = "startup" /\ decision_made
    /\ user_decision = "generate_task"
    /\ RoundsLeft
    /\ \/ /\ Truthy(Get(user_data, "prompt"))
          /\ \/ /\ Put(<<[status |-> "task_generated", task |-> "generated-task"]>>)
                /\ ResetDecision
                /\ hist' = [Reset(Waited(hist)) EXCEPT !.rounds = @ + 1]
                /\ pc' = pc
             \/ /\ pc' = "raise"
                /\ hist' = Ended(Waited(hist), "raised")
                /\ UNCHANGED <<channel, status_queue, published>>
       \/ /\ ~Truthy(Get(user_data, "prompt"))
          /\ ResetDecision
          /\ hist' = [Reset(Waited(hist)) EXCEPT !.rounds = @ + 1]
          /\ UNCHANGED <<pc, status_queue, published>>
    /\ UNCHANGED <<serverSide, analysis, runLocals, genLocals, world>>

StartupStartAnalysis ==
    /\ pc = "startup" /\ decision_made
    /\ user_decision = "start_analysis"
    /\ task' = IF IsDict(user_data) THEN Get(user_data, "task") ELSE task
    /\ Put(Logs(<<CliLog("", <<"starting new run", task'>>)>>))
    /\ ResetDecision
    /\ hist' = Reset(Waited(hist))
    /\ pc' = "new_run"
    /\ UNCHANGED <<serverSide, analysis, server, original_branch, run_state, user_feedback,
                   previous_analysis, grep, genLocals, world>>

(* no branch of the loop matches: the loop goes round to wait_for_decision again *)
StartupUnhandled ==
    /\ pc = "startup" /\ decision_made
    /\ ~(user_decision = "resume_run" /\ Truthy(Get(user_data, "run_id")))
    /\ ~(user_decision = "delete_run" /\ Truthy(Get(user_data, "run_id")))
    /\ user_decision \notin {"generate_task", "start_analysis"}
    /\ hist' = Waited(hist)
    /\ UNCHANGED <<serverSide, planVars, channel, pc, runLocals, genLocals, world, published>>

(* run(), lines 941-954: the run state of a new run *)
NewRunState(t, branch) ==
    [run_id |-> "run-new", task |-> t, original_branch |-> branch, analysis |-> NoObject,
     completed_files |-> <<>>, generated_code_cache |-> {}]

BeginNewRun ==
    /\ pc = "new_run"
    /\ run_state' = NewRunState(task, original_branch)
    /\ previous_analysis' = NoObject
    /\ user_feedback' = NoFeedback
    /\ grep' = [attempt |-> 0, results |-> <<>>]
    /\ pc' = "planning"
    /\ hist' = [Phase(hist, "Planning") EXCEPT !.roundCalls = 0, !.planner = <<>>]
    /\ UNCHANGED <<serverSide, planVars, channel, server, task, original_branch,
                   genLocals, world, published>>

(* ---- _get_analysis_with_retries and the feedback loop of run() ---- *)

MAX_ANALYSIS_GREP_RETRIES == 3

(* the query the Planner may ask for after `asked` earlier grep answers of the round *)
GrepQueries(asked) == IF asked = 1 THEN {"q", "r"} ELSE {"q"}

(* git_grep_search(q) *)
GrepResult(q) == <<"grep", q>>

(* the arguments of one get_initial_analysis call *)
PlannerInput ==
    [task |-> task,
     feedback |-> IF grep.attempt = 0 THEN user_feedback ELSE NoFeedback,
     previous_plan |-> previous_analysis,
     grep_results |-> grep.results]

Invoked(h) == [h EXCEPT !.planner = Append(@, PlannerInput), !.roundCalls = @ + 1]

PlannerRaises ==
    /\ pc = "planning"
    /\ hist' = Ended(Invoked(hist), "raised")
    /\ pc' = "raise"
    /\ UNCHANGED <<serverSide, planVars, channel, runLocals, genLocals, world, published>>

RetriesLeftOneMore(invoked) == invoked <= MAX_ANALYSIS_GREP_RETRIES

(* line 1041: for _ in range(MAX_ANALYSIS_GREP_RETRIES), after `invoked` passes *)
RetriesLeft(invoked) == invoked < MAX_ANALYSIS_GREP_RETRIES

PlannerAsksGrep ==
    /\ pc = "planning"
    /\ \E q \in GrepQueries(grep.attempt) :
          grep' = [attempt |-> grep.attempt + 1, results |-> <<GrepResult(q)>>]
    /\ hist' = IF RetriesLeft(grep.attempt + 1) THEN Invoked(hist)
               ELSE Ended(Invoked(hist), "no plan")
    /\ IF RetriesLeft(grep.attempt + 1)
       THEN /\ Put(Logs(<<CliLog("", <<"running grep queries">>)>>))
            /\ pc' = pc
       ELSE /\ Put(Logs(<<CliLog("", <<"running grep queries">>),
                          CliLog("error", <<"no confident analysis">>)>>))
            /\ pc' = "exit"
    /\ UNCHANGED <<serverSide, analysis, channel, server, task, original_branch, run_state,
                   user_feedback, previous_analysis, genLocals, world>>

QuestionPlan ==
    [files_to_edit |-> <<>>, files_to_create |-> <<>>, generation_order |-> <<>>,
     relevant_files |-> <<>>, use_flash_model |-> FALSE, branch_name |-> RunBranch,
     user_request |-> "which?", additional_grep_queries_needed |-> <<>>]

(* the answer carries a question: _handle_user_input_request up to its wait *)
PlannerAsksUser ==
    /\ pc = "planning"
    /\ RoundsLeft
    /\ grep.attempt = 0   \* the Planners of the model ask the user before they ask for grep
    /\ analysis' = QuestionPlan
    /\ hist' = [Invoked(hist) EXCEPT !.questions = @ + 1,
                                     !.input = IF server THEN [kind |-> None, text |-> None]
                                               ELSE [kind |-> "no server", text |-> None],
                                     !.outcome = IF server THEN @ ELSE "aborted"]
    /\ IF server
       THEN /\ Put(Logs(<<CliLog("", <<"question", "which?">>)>>)
                   \o <<[status |-> "user_input_required", request |-> "which?"]>>)
            /\ pc' = "user_input_wait"
       ELSE /\ Put(Logs(<<CliLog("", <<"question", "which?">>),
                          CliLog("error", <<"aborted during user input">>)>>))
            /\ pc' = "exit"
    /\ UNCHANGED <<serverSide, channel, runLocals, genLocals, world>>

NothingToDoNever(a) == FALSE

(* line 968: if not analysis.generation_order *)
NothingToDo(a) == a.generation_order = <<>>

(* the answer is a plan: reconciliation, the empty-plan exit, and the publication of the plan *)
PlannerAnswers ==
    /\ pc = "planning"
    /\ \E p \in RunPlans :
          LET r == Reconcile(p, all_repo_files)
          IN /\ analysis' = r.analysis
             /\ \E ord \in Perms(r.removed) :
                   IF NothingToDo(r.analysis)
                   THEN /\ Put(Logs(ReconcileEvents(r, ord) \o <<CliLog("", <<"no files to change">>)>>))
                        /\ pc' = "exit"
                   ELSE IF ~server
                   THEN /\ Put(Logs(ReconcileEvents(r, ord) \o <<CliLog("", <<"approved automatically">>)>>))
                        /\ pc' = "approved"
                   ELSE /\ Put(Logs(ReconcileEvents(r, ord) \o <<CliLog("", <<"awaiting confirmation">>)>>)
                               \o <<[status |-> "plan_ready", plan |-> r.analysis, task |-> task]>>)
                        /\ pc' = "plan_wait"
    /\ hist' = IF NothingToDo(analysis') THEN Ended(Invoked(hist), "nothing to do")
               ELSE Phase(Invoked(hist), "PlanReview")
    /\ grep' = [attempt |-> 0, results |-> <<>>]
    /\ UNCHANGED <<serverSide, channel, server, task, original_branch, run_state,
                   user_feedback, previous_analysis, genLocals, world>>

AnsweredAlways(kind, data) == TRUE

(* lines 1066-1068: decision == 'user_input' and isinstance(data, dict), and the answer is
   not empty *)
Answered(kind, data) ==
    kind = "user_input" /\ IsDict(data) /\ Truthy(Get(data, "user_input"))

(* line 1070: the feedback names the question and the user's answer *)
Folded(question, answer) ==
    <<"my previous question was", question, "the user's answer is", answer>>

(* what the wait of a question returned *)
Replied(h, kind, data) ==
    [h EXCEPT !.input = [kind |-> kind, text |-> Get(data, "user_input")]]

(* _handle_user_input_request, lines 1065-1076: after its wait *)
UserInputDecision ==
    /\ pc = "user_input_wait" /\ decision_made
    /\ IF Answered(user_decision, user_data)
       THEN /\ Put(Logs(<<CliLog("", <<"user responded", Get(user_data, "user_input")>>)>>))
            /\ ResetDecision
            /\ hist' = [Replied(Reset(Waited(hist)), user_decision, user_data)
                            EXCEPT !.roundCalls = 0, !.planner = <<>>]
            /\ user_feedback' = Folded(analysis.user_request, Get(user_data, "user_input"))
            /\ previous_analysis' = analysis
            /\ grep' = [attempt |-> 0, results |-> <<>>]
            /\ pc' = "planning"
       ELSE /\ Put(Logs(<<CliLog("error", <<"aborted during user input">>)>>)
                   \o <<[status |-> "error", message |-> "cancelled during user input"]>>)
            /\ hist' = Ended(Replied(Waited(hist), user_decision, user_data), "aborted")
            /\ pc' = "exit"
            /\ UNCHANGED <<channel, user_feedback, previous_analysis, grep>>
    /\ UNCHANGED <<serverSide, analysis, server, task, original_branch, run_state, genLocals, world>>

(* ---- _wait_for_plan_approval, lines 1091-1116, and what run() does with its result ---- *)

RECURSIVE SetSeq(_)
SetSeq(S) == IF S = {} THEN <<>> ELSE LET x == CHOOSE y \in S : TRUE IN <<x>> \o SetSeq(S \ {x})

MergeContextOnly(a, data) ==
    IF IsDict(data) /\ "additional_context_files" \in DOMAIN data
    THEN [a EXCEPT !.relevant_files = SortedPaths(SetSeq(Range(data.additional_context_files)))]
    ELSE a

(* sorted(list(set(relevant_files + added_files))) *)
MergeContext(a, data) ==
    IF IsDict(data) /\ "additional_context_files" \in DOMAIN data
    THEN [a EXCEPT !.relevant_files =
                SortedPaths(SetSeq(Range(a.relevant_files \o data.additional_context_files)))]
    ELSE a

FlashOverride(a, data) ==
    IF IsDict(data) /\ "use_flash_model" \in DOMAIN data
    THEN [a EXCEPT !.use_flash_model = data.use_flash_model]
    ELSE a

ApprovedAlways(kind) == TRUE

(* the first component of the triple _wait_for_plan_approval returns *)
Approved(kind) == kind = "approve"

HasFeedback(kind, data) == kind = "feedback" /\ IsDict(data) /\ Truthy(Get(data, "feedback"))

Reviewed(h, kind, data) ==
    [h EXCEPT !.review = IF HasFeedback(kind, data) THEN "feedback"
                         ELSE IF kind = "approve" THEN "approve" ELSE "reject",
              !.reviewText = IF HasFeedback(kind, data) THEN data.feedback ELSE ""]

PlanDecision ==
    /\ pc = "plan_wait" /\ decision_made
    /\ hist' = IF Approved(user_decision) THEN Reviewed(Waited(hist), user_decision, user_data)
               ELSE Ended(Reviewed(Waited(hist), user_decision, user_data), "rejected")
    /\ IF Approved(user_decision)
       THEN /\ analysis' = MergeContext(FlashOverride(analysis, user_data), user_data)
            /\ Put(Logs(<<CliLog("", <<"plan approved">>)>>))
            /\ pc' = "approved"
       ELSE /\ analysis' = IF HasFeedback(user_decision, user_data)
                           THEN MergeContext(analysis, user_data) ELSE analysis
            /\ Put(Logs(<<CliLog("", <<"plan rejected">>)>>))
            /\ pc' = "exit"
    /\ UNCHANGED <<serverSide, channel, runLocals, genLocals, world>>

(* run(), lines 986-989 *)
SaveInitialState ==
    /\ pc = "approved"
    /\ run_state' = Snapshot(run_state, analysis)
    /\ \/ /\ disk' = SaveRunState(disk, run_state')
          /\ hist' = Persisted(Stored(hist, "save"), run_state')
          /\ pc' = "branch"
          /\ UNCHANGED <<status_queue, published, faults>>
       \/ /\ Failures(<<FALSE>>)
          /\ Put(Logs(<<CliLog("error", <<"could not save run state">>)>>))
          /\ hist' = [Ended(Stored(hist, "save"), "save failed") EXCEPT !.saveFailed = TRUE]
          /\ pc' = "exit"
          /\ UNCHANGED disk
    /\ UNCHANGED <<httpSide, analysis, channel, server, task, original_branch, user_feedback,
                   previous_analysis, grep, genLocals, git, written>>

CheckoutCommandNew(g, name) == <<"checkout -b", name>>

(* _create_and_checkout_branch: the command it runs *)
CheckoutCommand(g, name) ==
    IF name \in g.branches THEN <<"checkout", name>> ELSE <<"checkout -b", name>>

FilesToProcessSorted(state) ==
    SortedPaths(SelectSeq(state.analysis.generation_order,
                          LAMBDA f : ~InList(f, state.completed_files)))

(* _execute_generation_loop, lines 690-695 *)
FilesToProcess(state) ==
    SelectSeq(state.analysis.generation_order, LAMBDA f : ~InList(f, state.completed_files))

(* run(), lines 991-1000: the branch for a new run or a resumed one, then the loop's set-up *)
CheckoutBranch ==
    /\ pc \in {"branch", "resume"}
    /\ LET name == run_state.analysis.branch_name
           cmd == CheckoutCommand(git, name)
           pre == Logs((IF pc = "resume" THEN <<CliLog("", <<"resuming run">>)>> ELSE <<>>)
                       \o <<CliLog("", <<"switching to", name>>)>>
                       \o (IF name \in git.branches
                           THEN <<CliLog("warning", <<"branch exists", name>>)>> ELSE <<>>))
       IN \/ /\ git' = [current |-> name, branches |-> git.branches \cup {name},
                        calls |-> Append(git.calls, cmd)]
             /\ Put(pre \o Logs(<<CliLog("", <<"switched to", name>>)>>))
             /\ files_to_process' = FilesToProcess(run_state)
             /\ edited_files' = run_state.completed_files
             /\ idx' = 0
             /\ pc' = "gen_loop"
             /\ hist' = Phase(hist, "Generating")
             /\ UNCHANGED <<disk, faults>>
          \/ /\ Failures(<<FALSE>>)
             /\ git' = [git EXCEPT !.calls = Append(@, cmd)]
             /\ Put(pre \o Logs(<<CliLog("error", <<"checkout failed", name>>),
                                  CliLog("error", <<"aborting">>)>>))
             /\ IF pc = "branch"
                THEN /\ disk' = DeleteRunState(disk, run_state.run_id)
                     /\ hist' = Ended(Stored(hist, "delete"), "branch failed")
                ELSE /\ hist' = Ended(hist, "branch failed")
                     /\ UNCHANGED disk
             /\ pc' = "exit"
             /\ UNCHANGED genLocals
    /\ UNCHANGED <<httpSide, analysis, channel, runLocals, written>>

(* ---- _execute_generation_loop, lines 705-805 ---- *)

(* nothing, a path no plan names, and a path every plan names *)
AddRequests == {<<>>, <<"d.py">>, <<"c.py">>}

GenWriting ==
    /\ pc = "gen_loop"
    /\ idx < Len(files_to_process)
    /\ idx' = idx + 1
    /\ Put(<<[status |-> "writing", file_path |-> files_to_process[idx + 1],
              completed_files |-> edited_files,
              processing_queue |-> SubSeq(files_to_process, idx + 1, Len(files_to_process))]>>)
    /\ pc' = "gen_call"
    /\ UNCHANGED <<serverSide, analysis, channel, runLocals, files_to_process, edited_files,
                   world, hist>>

GeneratorRaises ==
    /\ pc = "gen_call"
    /\ pc' = "raise"
    /\ hist' = [hist EXCEPT !.generated = Append(@, files_to_process[idx]),
                            !.outcome = "raised"]
    /\ UNCHANGED <<serverSide, planVars, channel, runLocals, genLocals, world, published>>

UnprocessedAfter(queue, i) == SubSeq(queue, i + 1, Len(queue))

(* line 744: return files_to_process[i-1:], with i already advanced past the file *)
Unprocessed(queue, i) == SubSeq(queue, i, Len(queue))

(* requires_more_context: the loop returns the unprocessed files and run() reports them *)
GeneratorNeedsContext ==
    /\ pc = "gen_call"
    /\ LET unprocessed == Unprocessed(files_to_process, idx)
       IN Put(Logs(<<CliLog("error", <<"needs more context", files_to_process[idx]>>),
                     CliLog("error", <<"re-analysis not supported">>),
                     CliLog("error", <<"failed to complete">>),
                     CliLog("error", <<"not processed:">>)>>
                   \o [i \in 1..Len(unprocessed) |-> CliLog("error", <<"-", unprocessed[i]>>)]
                   \o <<CliLog("warning", <<"run state has been saved">>)>>)
              \o (IF server THEN <<Event("finished")>> ELSE <<>>))
    /\ pc' = "exit"
    /\ hist' = [hist EXCEPT !.generated = Append(@, files_to_process[idx]),
                            !.loop = [returned |-> TRUE,
                                      unprocessed |-> Unprocessed(files_to_process, idx)],
                            !.outcome = "unprocessed"]
    /\ UNCHANGED <<serverSide, analysis, channel, runLocals, genLocals, world>>

(* files_to_add, lines 784-786 *)
FilesToAdd(request, queue, edited) ==
    SelectSeq(request, LAMBDA f : ~InList(f, queue) /\ ~InList(f, edited))

CompletedAgain(edited, file_path) == Append(edited, file_path)

(* lines 752-753: if file_path not in edited_files: edited_files.append(file_path) *)
Completed(edited, file_path) ==
    IF InList(file_path, edited) THEN edited ELSE Append(edited, file_path)

ExtendQueueFront(queue, toAdd) == toAdd \o queue

(* line 791: files_to_process.extend(files_to_add) *)
ExtendQueue(queue, toAdd) == queue \o toAdd

ExtendOrderNot(a, toAdd) == a

(* line 792: analysis.generation_order.extend(files_to_add) *)
ExtendOrder(a, toAdd) == [a EXCEPT !.generation_order = @ \o toAdd]

GeneratorSucceeds ==
    /\ pc = "gen_call"
    /\ \E writeOk \in Outcomes, saveOk \in Outcomes, request \in AddRequests :
          LET file_path == files_to_process[idx]
              edited == Completed(edited_files, file_path)
              toAdd == FilesToAdd(request, files_to_process, edited)
              a2 == ExtendOrder(analysis, toAdd)
              st1 == [run_state EXCEPT !.completed_files = edited,
                                       !.generated_code_cache = @ \cup {file_path}]
              st2 == Snapshot(st1, a2)
          IN /\ Failures(<<writeOk, saveOk>>)
             /\ written' = IF writeOk THEN Append(written, file_path) ELSE written
             /\ edited_files' = edited
             /\ files_to_process' = ExtendQueue(files_to_process, toAdd)
             /\ analysis' = a2
             /\ run_state' = st2
             /\ disk' = IF saveOk THEN SaveRunState(disk, st2) ELSE disk
             /\ hist' = LET h1 == [hist EXCEPT !.generated = Append(@, file_path),
                                                !.dropped = @ \cup (Range(request) \ Range(toAdd)),
                                                !.saveFailed = @ \/ ~saveOk]
                            h2 == IF saveOk THEN Persisted(Stored(h1, "save"), st1)
                                  ELSE Stored(h1, "save")
                        IN IF toAdd = <<>> THEN h2
                           ELSE IF saveOk THEN Persisted(Stored(h2, "save"), st2)
                           ELSE Stored(h2, "save")
             /\ Put(<<[status |-> "done", file_path |-> file_path,
                          completed_files |-> edited,
                          processing_queue |-> SubSeq(files_to_process, idx + 1, Len(files_to_process))]>>
                    \o (IF toAdd = <<>> THEN <<>>
                        ELSE Logs(<<CliLog("", <<"adding to queue", toAdd>>)>>)
                             \o <<[status |-> "plan_updated", files_added |-> toAdd,
                                   new_total_files |-> Len(a2.generation_order)]>>))
    /\ pc' = "gen_loop"
    /\ UNCHANGED <<httpSide, channel, server, task, original_branch, user_feedback,
                   previous_analysis, grep, idx, git>>

(* ---- run(), lines 1007-1029: commit, push, pull request, clean-up ---- *)

CommitCommandsTwice == <<<<"add">>, <<"commit">>, <<"push">>, <<"add">>, <<"commit">>, <<"push">>>>

(* _commit_and_push_changes: add, commit, push; a failing command ends the sequence *)
CommitCommands == <<<<"add">>, <<"commit">>, <<"push">>>>

QueueDrainedAlways == TRUE

(* line 706: the loop condition `i < len(files_to_process)` is false *)
QueueDrained == idx >= Len(files_to_process)

CommitAndPush ==
    /\ pc = "gen_loop"
    /\ QueueDrained
    /\ \E ran \in 1..Len(CommitCommands), ok \in Outcomes :
          /\ ok => ran = Len(CommitCommands)
          /\ Failures(<<ok>>)
          /\ git' = [git EXCEPT !.calls = @ \o SubSeq(CommitCommands, 1, ran)]
          /\ IF ok
             THEN /\ Put(Logs(<<CliLog("", <<"all changes applied">>), CliLog("", <<"pushed">>)>>))
                  /\ pc' = "pull_request"
             ELSE /\ Put(Logs(<<CliLog("", <<"all changes applied">>),
                                CliLog("error", <<"git operation failed">>),
                                CliLog("warning", <<"push failed, skipping PR">>)>>))
                  /\ pc' = "cleanup"
    /\ hist' = [Phase(hist, "Committing") EXCEPT !.loop = [returned |-> TRUE, unprocessed |-> <<>>]]
    /\ UNCHANGED <<httpSide, analysis, channel, runLocals, genLocals, disk, written>>

CreatePullRequest ==
    /\ pc = "pull_request"
    /\ \E ok \in Outcomes :
          /\ Failures(<<ok>>)
          /\ git' = [git EXCEPT !.calls = Append(@, <<"pr create", original_branch>>)]
          /\ Put(Logs(<<CliLog(IF ok THEN "" ELSE "error", <<"pull request", ok>>)>>))
    /\ pc' = "cleanup"
    /\ UNCHANGED <<httpSide, analysis, channel, runLocals, genLocals, disk, written, hist>>

(* run(), lines 1023-1029 *)
Cleanup ==
    /\ pc = "cleanup"
    /\ disk' = DeleteRunState(disk, run_state.run_id)
    /\ hist' = Ended(Phase(Stored(hist, "delete"), "Done"), "done")
    /\ Put(IF server THEN <<Event("finished")>> ELSE <<>>)
    /\ pc' = "exit"
    /\ UNCHANGED <<serverSide, analysis, channel, runLocals, genLocals, git, written>>

(* run(), lines 1030-1036: the finally block, after a return or an exception *)
Shutdown ==
    /\ pc \in {"exit", "raise"}
    /\ Put(IF server THEN Logs(<<CliLog("", <<"shutting down web server">>)>>) ELSE <<>>)
    /\ server' = FALSE
    /\ pc' = IF pc = "exit" THEN "done" ELSE "died"
    /\ UNCHANGED <<serverSide, analysis, channel, task, original_branch, run_state, user_feedback,
                   previous_analysis, grep, genLocals, world, hist>>

(* the steps of the orchestrator thread *)
Orchestrator ==
    \/ SetupFails \/ SetupDone
    \/ StartupResume \/ StartupDelete \/ StartupGenerateTask \/ StartupStartAnalysis
    \/ StartupUnhandled
    \/ BeginNewRun
    \/ PlannerRaises \/ PlannerAsksGrep \/ PlannerAsksUser \/ PlannerAnswers
    \/ UserInputDecision \/ PlanDecision
    \/ SaveInitialState \/ CheckoutBranch
    \/ GenWriting \/ GeneratorRaises \/ GeneratorNeedsContext \/ GeneratorSucceeds
    \/ CommitAndPush \/ CreatePullRequest \/ Cleanup
    \/ Shutdown

(* a wait_for_decision can still follow: a decision posted later is never read *)
WaitAhead == pc \in {"startup", "new_run", "planning", "user_input_wait", "plan_wait"}

(* Spec: the run with decisions posted at any moment a wait can follow; nothing polls
   the feed. *)
Next == (WaitAhead /\ PostDecision) \/ Orchestrator

Spec == Init /\ [][Next]_vars

(* SpecFeed: the run with a consumer polling GET /status at any moment; the user answers
   when the orchestrator is waiting. *)
(* what the UI sends when it is asked: one decision of each kind, with its payload *)
AskedDecisions ==
    {d \in Decisions : IsDict(d[2]) /\ d[2] # [feedback |-> ""] /\ d[2] # [user_input |-> ""]}
        \cup {<<"reject", NoData>>}

PostWhenAsked ==
    /\ pc \in {"startup", "user_input_wait", "plan_wait"}
    /\ server
    /\ SlotOpen
    /\ \E d \in AskedDecisions : SetDecision(d[1], d[2])
    /\ UNCHANGED <<planVars, rcHist, aside, threads, chHist, runVars>>

MaxBacklog == 2

(* the consumer polls often enough: the orchestrator moves with a short backlog only *)
ConsumerKeepsUp == Len(status_queue) <= MaxBacklog

NextFeed == PostWhenAsked \/ PollStatus \/ PollTimeout \/ (ConsumerKeepsUp /\ Orchestrator)

SpecFeed == InitFeed /\ [][NextFeed]_vars

----------------------------------------------------------------------------
(* Properties of the status feed and of the run. *)

(* C7: the events the orchestrator put are delivered to the polling consumer in the order
   they were put, each once, none lost: what was published is what was delivered followed
   by what is still queued. A poll answered 200 took exactly one event, a poll answered
   204 took none. *)
C7_FeedIsFifoExactlyOnce ==
    /\ published = delivered \o status_queue
    /\ lastPoll.code = 200 => lastPoll.taken = 1
    /\ lastPoll.code = 204 => lastPoll.taken = 0

C7_Witness ==
    /\ Len(delivered) >= 3
    /\ delivered[1] # delivered[2] /\ delivered[2] # delivered[3]
    /\ status_queue # <<>>
    /\ lastPoll.code = 200

(* C8: reset_decision is called between any two consecutive returns of wait_for_decision:
   no wait returns while the decision an earlier wait returned is still in the slot. *)
C8_ResetBetweenWaits == ~hist.replayed

C8_Replayed ==
    /\ hist.replayed
    /\ pc = "startup"
    /\ user_decision \in PostRoutes

(* C9: a plan review answered with feedback that has text does not end the run: the run is
   not on its way out with that feedback as the latest review. *)
C9_FeedbackContinues ==
    (hist.review = "feedback" /\ hist.reviewText # "") => pc \notin {"exit", "done"}

C9_FeedbackEndsRun ==
    /\ hist.review = "feedback" /\ hist.reviewText = "fb"
    /\ pc = "done"
    /\ Len(hist.planner) = 1

(* C10: after a rejected plan the run ends and has made no version-control call, written
   no file and saved no RunState snapshot. *)
C10_RejectLeavesNoTrace ==
    hist.review = "reject" =>
        /\ pc \in {"exit", "done"}
        /\ git.calls = <<>>
        /\ git.current = original_branch
        /\ written = <<>>
        /\ ~InList("save", hist.store)
        /\ "run-new" \notin DOMAIN disk

C10_Witness ==
    /\ hist.review = "reject"
    /\ pc = "done"
    /\ Len(hist.planner) >= 1

----------------------------------------------------------------------------
(* Properties of the generation phase. *)

(* the paths of a list, each once, in the order of their first occurrence *)
RECURSIVE Dedup(_)
Dedup(s) ==
    IF s = <<>> THEN <<>>
    ELSE LET front == Dedup(SubSeq(s, 1, Len(s) - 1))
         IN IF InList(s[Len(s)], front) THEN front ELSE Append(front, s[Len(s)])

IsPrefix(s, t) == Len(s) <= Len(t) /\ SubSeq(t, 1, Len(s)) = s

Count(calls, c) == Cardinality({i \in 1..Len(calls) : calls[i] = c})

HappyPhases == <<"Planning", "PlanReview", "Generating", "Committing", "Done">>

(* a new run whose plan was approved and whose every file was generated has ended *)
HappyEnd ==
    /\ pc = "done"
    /\ ~hist.resumed
    /\ hist.loop.returned /\ hist.loop.unprocessed = <<>>

(* C11 as stated: on the happy path the phases are Planning, PlanReview, Generating,
   Committing, Done; completed_files equals generation_order; commit/push was invoked
   once; the snapshot is deleted. *)
C11_HappyPathExact ==
    HappyEnd =>
        /\ hist.phases = HappyPhases
        /\ run_state.completed_files = run_state.analysis.generation_order
        /\ Count(git.calls, <<"add">>) = 1
        /\ run_state.run_id \notin DOMAIN disk

(* C11: on the happy path the phases are Planning, PlanReview, Generating, Committing,
   Done in that order; completed_files is generation_order with repeated paths dropped;
   commit/push was invoked exactly once, after every Generator call; the snapshot of the
   run is deleted. *)
C11_HappyPath ==
    HappyEnd =>
        /\ hist.phases = HappyPhases
        /\ run_state.completed_files = Dedup(run_state.analysis.generation_order)
        /\ hist.generated = run_state.analysis.generation_order
        /\ Count(git.calls, <<"add">>) = 1
        /\ run_state.run_id \notin DOMAIN disk

C11_Witness ==
    /\ HappyEnd
    /\ hist.phases = HappyPhases
    /\ Len(run_state.completed_files) >= 2
    /\ run_state.completed_files = run_state.analysis.generation_order
    /\ <<"push">> \in Range(git.calls)

(* the generation loop has stopped on a file the Generator needs more context for *)
NeedsContextStop == hist.loop.returned /\ hist.loop.unprocessed # <<>>

IsCheckout(call) == call[1] \in {"checkout", "checkout -b"}

(* C12: when the Generator needs more context for the k-th file of the queue, the loop
   returns the queue from its k-th entry on; the files completed before stay in
   completed_files; the snapshot of the run is still on disk as it was last persisted (with
   every completed file if no save failed); no commit, push or PR creation is made and the
   run ends without reaching Committing. *)
C12_NeedsContextStops ==
    NeedsContextStop =>
        LET k == Len(hist.generated)
            id == run_state.run_id
        IN /\ hist.loop.unprocessed = SubSeq(files_to_process, k, Len(files_to_process))
           /\ hist.loop.unprocessed[1] = hist.generated[k]
           /\ \A i \in 1..(k - 1) : InList(hist.generated[i], run_state.completed_files)
           /\ id \in DOMAIN disk
           /\ Snap(disk[id]) = hist.snapshots[Len(hist.snapshots)]
           /\ ~hist.saveFailed => disk[id].completed_files = run_state.completed_files
           /\ \A i \in 1..Len(git.calls) : IsCheckout(git.calls[i])
           /\ pc \in {"exit", "done"}
           /\ "Committing" \notin Range(hist.phases) /\ "Done" \notin Range(hist.phases)

C12_Witness ==
    /\ NeedsContextStop
    /\ pc = "done"
    /\ Len(hist.loop.unprocessed) >= 2
    /\ Len(hist.generated) >= 2
    /\ disk[run_state.run_id].completed_files = <<hist.generated[1]>>

(* the snapshot a resumed run was loaded from *)
Loaded == hist.snapshots[1]

(* the paths of the loaded generation_order that the loaded completed_files lacks, in order *)
Remaining ==
    SelectSeq(Loaded.generation_order, LAMBDA f : ~InList(f, Loaded.completed_files))

(* the paths appended to generation_order since the snapshot was loaded *)
AppendedSinceLoad ==
    SubSeq(run_state.analysis.generation_order, Len(Loaded.generation_order) + 1,
           Len(run_state.analysis.generation_order))

(* C13: a resumed run invokes the Generator for the paths of generation_order that the
   loaded completed_files lacks, in generation_order order, then for the paths appended
   during generation, in append order; never for a path of the loaded completed_files;
   all of them once the loop has run to its end. *)
C13_ResumeOrder ==
    (hist.resumed /\ "Generating" \in Range(hist.phases)) =>
        /\ files_to_process = Remaining \o AppendedSinceLoad
        /\ IsPrefix(hist.generated, files_to_process)
        /\ \A i \in 1..Len(hist.generated) : ~InList(hist.generated[i], Loaded.completed_files)
        /\ (hist.loop.returned /\ hist.loop.unprocessed = <<>>) => hist.generated = files_to_process

C13_Witness ==
    /\ hist.resumed
    /\ hist.loop.returned /\ hist.loop.unprocessed = <<>>
    /\ hist.generated = <<"b.py", "a.py", "d.py">>
    /\ Loaded.completed_files = <<"c.py">>
    /\ run_state.analysis.files_to_edit = <<"a.py", "b.py">>

NoRepeats(s) == \A i, j \in 1..Len(s) : s[i] = s[j] => i = j

(* C14: in the successive snapshots persisted under the run's id, the loaded one of a
   resumed run included, completed_files has no path twice and extends the
   completed_files of the snapshot before it. *)
C14_CompletedGrowsOnly ==
    \A i \in 1..Len(hist.snapshots) :
        /\ NoRepeats(hist.snapshots[i].completed_files)
        /\ i > 1 => IsPrefix(hist.snapshots[i - 1].completed_files,
                             hist.snapshots[i].completed_files)

C14_Witness ==
    /\ hist.resumed
    /\ Len(hist.snapshots) >= 3
    /\ hist.snapshots[1].completed_files = <<"c.py">>
    /\ hist.snapshots[2].completed_files = <<"c.py", "b.py">>
    /\ hist.snapshots[3].completed_files = <<"c.py", "b.py", "a.py">>

CompletedWithinOrder(completed, a) ==
    completed # <<>> => /\ a # NoObject
                        /\ Range(completed) \subseteq Range(a.generation_order)

(* C15: in every state of a run, the RunState in memory, every snapshot the run has
   persisted and every snapshot in the store name in completed_files only paths of
   their generation_order. *)
C15_CompletedWithinOrder ==
    /\ run_state # NoObject =>
           CompletedWithinOrder(run_state.completed_files, run_state.analysis)
    /\ \A i \in 1..Len(hist.snapshots) :
           Range(hist.snapshots[i].completed_files)
               \subseteq Range(hist.snapshots[i].generation_order)
    /\ \A id \in DOMAIN disk :
           CompletedWithinOrder(disk[id].completed_files, disk[id].analysis)

C15_Witness ==
    /\ run_state # NoObject
    /\ InList("d.py", run_state.completed_files)
    /\ run_state.run_id \in DOMAIN disk
    /\ InList("d.py", disk[run_state.run_id].completed_files)
    /\ InList("d.py", disk[run_state.run_id].analysis.generation_order)

(* a commit, push or pull-request command has been run *)
Delivered == \E i \in 1..Len(git.calls) : ~IsCheckout(git.calls[i])

(* C16: commit/push and PR creation are only made after the generation loop returned an
   empty unprocessed list, with every path of generation_order (appended ones included)
   in completed_files; never after a rejection, a failed analysis or a stop with
   unprocessed files. *)
C16_DeliverOnlyWhenDrained ==
    Delivered =>
        /\ hist.loop.returned /\ hist.loop.unprocessed = <<>>
        /\ hist.generated = files_to_process
        /\ Range(run_state.analysis.generation_order) \subseteq Range(run_state.completed_files)
        /\ hist.review \notin {"reject", "feedback"}
        /\ "Generating" \in Range(hist.phases)
        /\ pc # "raise"

C16_Witness ==
    /\ Delivered
    /\ <<"pr create", original_branch>> \in Range(git.calls)
    /\ InList("d.py", run_state.analysis.generation_order)
    /\ InList("d.py", run_state.completed_files)

(* C17 as stated: every path a successful generation names in add_to_generation_queue,
   new or a revisit of a file already generated or queued, is appended to the work queue
   and to generation_order: no named path is left out. *)
C17_EveryNamedPathAppended == hist.dropped = {}

(* a revisit of a generated file was asked for and the queue did not take it *)
C17_RevisitDropped ==
    /\ "c.py" \in hist.dropped
    /\ InList("c.py", hist.generated)
    /\ Count(files_to_process, "c.py") = 1
    /\ hist.loop.returned /\ hist.loop.unprocessed = <<>>

(* the generation phase has begun *)
GenerationBegun == "Generating" \in Range(hist.phases)

(* C18: from the moment generation begins, every step leaves the work queue and
   generation_order (of the plan and of the RunState) as they were or with paths added
   at the end: no path is removed or moved. *)
C18_AppendOnly ==
    [][GenerationBegun =>
           /\ IsPrefix(files_to_process, files_to_process')
           /\ IsPrefix(analysis.generation_order, analysis'.generation_order)
           /\ IsPrefix(run_state.analysis.generation_order,
                       run_state'.analysis.generation_order)]_vars

C18_Witness ==
    /\ hist.resumed
    /\ GenerationBegun
    /\ files_to_process = <<"b.py", "a.py", "d.py">>
    /\ analysis.generation_order = <<"c.py", "b.py", "a.py", "d.py">>
    /\ run_state.analysis.generation_order = analysis.generation_order
    /\ hist.generated = <<"b.py", "a.py">>

(* the Planner inputs of the current analysis round, in order *)
RoundInputs ==
    SubSeq(hist.planner, Len(hist.planner) - hist.roundCalls + 1, Len(hist.planner))

(* every invocation of the round has asked for more grep context *)
RetriesExhausted == grep.attempt = MAX_ANALYSIS_GREP_RETRIES

(* C19: an analysis round invokes the Planner at most MAX_ANALYSIS_GREP_RETRIES times;
   when every invocation asked for grep the run ends without a plan, without raising,
   without a branch, a written file or a saved RunState; an invocation is only repeated
   after one that asked for grep, so the first that asks for none ends the round. *)
C19_GrepRetriesBounded ==
    /\ hist.roundCalls <= MAX_ANALYSIS_GREP_RETRIES
    /\ pc = "planning" => hist.roundCalls = grep.attempt
    /\ RetriesExhausted =>
           /\ hist.roundCalls = MAX_ANALYSIS_GREP_RETRIES
           /\ pc \in {"exit", "done"}
           /\ analysis = NoObject \/ analysis = previous_analysis
           /\ git.calls = <<>>
           /\ git.current = original_branch
           /\ written = <<>>
           /\ ~InList("save", hist.store)
           /\ "PlanReview" \notin Range(hist.phases) \/ previous_analysis # NoObject

C19_Witness ==
    /\ RetriesExhausted
    /\ pc = "done"
    /\ hist.roundCalls = MAX_ANALYSIS_GREP_RETRIES
    /\ Len(hist.planner) = MAX_ANALYSIS_GREP_RETRIES

(* C20 as stated: within a round, the grep results handed to one Planner invocation are
   still part of the input of the next one, and so of every later one. *)
C20_GrepResultsAccumulate ==
    \A j \in 1..(Len(RoundInputs) - 1) :
        Range(RoundInputs[j].grep_results) \subseteq Range(RoundInputs[j + 1].grep_results)

(* the third invocation of a round is given the results of the second query only *)
C20_EarlierResultsLost ==
    /\ hist.roundCalls = MAX_ANALYSIS_GREP_RETRIES
    /\ RoundInputs[2].grep_results = <<GrepResult("q")>>
    /\ RoundInputs[3].grep_results = <<GrepResult("r")>>

----------------------------------------------------------------------------
(* Properties of the question cycle, the terminal outcomes and the error paths. *)

(* the latest question to the user was answered with a non-empty user_input *)
QuestionAnswered == hist.input.kind = "user_input" /\ Truthy(hist.input.text)

(* the latest question to the user ended the run *)
QuestionAborted == hist.input.kind # None /\ ~QuestionAnswered

(* C21: a question of the Planner is published as user_input_required and the run stays
   at the wait until a decision is there; a user_input decision with a non-empty answer
   resets the slot and the next Planner call gets the question and the answer as feedback
   and the questioning answer as previous plan, cycle after cycle; any other decision, an
   empty answer, or a run without server ends the run with no branch, no written file
   and no saved RunState. *)
C21_QuestionCycle ==
    /\ [](pc = "user_input_wait" =>
              /\ server
              /\ published[Len(published)] =
                     [status |-> "user_input_required", request |-> "which?"])
    /\ [][(pc = "user_input_wait" /\ ~decision_made) =>
              (pc' = pc /\ published' = published /\ hist' = hist)]_vars
    /\ []((QuestionAnswered /\ hist.roundCalls = 0) => (pc = "planning" /\ ~hist.unreset))
    /\ []((QuestionAnswered /\ hist.roundCalls >= 1) =>
              /\ RoundInputs[1].feedback =
                     <<"my previous question was", "which?",
                       "the user's answer is", hist.input.text>>
              /\ RoundInputs[1].previous_plan = QuestionPlan)
    /\ [](QuestionAborted =>
              /\ pc \in {"exit", "done"}
              /\ git.calls = <<>>
              /\ git.current = original_branch
              /\ written = <<>>
              /\ ~InList("save", hist.store)
              /\ "Generating" \notin Range(hist.phases))

C21_Witness ==
    /\ hist.questions = 2
    /\ QuestionAnswered
    /\ hist.input.text = "ans"
    /\ Len(hist.planner) = 2
    /\ hist.planner[1].previous_plan = QuestionPlan
    /\ hist.planner[2].grep_results = <<GrepResult("q")>>
    /\ hist.planner[2].feedback = NoFeedback
    /\ "PlanReview" \in Range(hist.phases)

(* the Planner's latest answer is a plan, not a question, and its reconciled
   generation_order is empty *)
EmptyPlan ==
    /\ analysis # NoObject
    /\ analysis.user_request = ""
    /\ analysis.generation_order = <<>>

(* C22: when the reconciled generation_order is empty the run ends by a return: the plan
   was not published for approval, no decision was waited for after the Planner's answer,
   no RunState was saved, no version-control command was run and the generation loop was
   not entered. *)
C22_NothingToDo ==
    EmptyPlan =>
        /\ hist.outcome = "nothing to do"
        /\ pc \in {"exit", "done"}
        /\ \A i \in 1..Len(published) : published[i].status # "plan_ready"
        /\ hist.review = None
        /\ "PlanReview" \notin Range(hist.phases)
        /\ ~InList("save", hist.store)
        /\ git.calls = <<>>
        /\ hist.generated = <<>> /\ ~hist.loop.returned
        /\ written = <<>>

C22_Witness ==
    /\ EmptyPlan
    /\ hist.outcome = "nothing to do"
    /\ server
    /\ pc = "exit"
    /\ Len(hist.planner) = 2

(* a terminal event is on the status feed *)
TerminalPublished ==
    \E i \in 1..Len(published) : published[i].status \in {"finished", "error"}

(* an interactive run has ended and its server is shut down *)
InteractiveEnded ==
    /\ ~force
    /\ pc = "done"
    /\ hist.outcome \in {"done", "rejected", "no plan", "nothing to do", "aborted",
                         "save failed", "branch failed", "unprocessed"}

(* C23 as stated: when an interactive run has ended, whatever its outcome, a `finished`
   or `error` event was put on the status feed before the server was shut down. *)
C23_TerminalEventAlways == InteractiveEnded => TerminalPublished

(* a rejected plan ends the interactive run with no terminal event on the feed *)
C23_EndedSilently ==
    /\ InteractiveEnded
    /\ hist.outcome = "rejected"
    /\ ~TerminalPublished
    /\ published[Len(published)].status = "cli_log"

(* C24 as stated: an exception of the Planner or of the Generator is turned into a
   terminal state of the run and never leaves run(). *)
C24_ExceptionsContained == pc \notin {"raise", "died"}

(* the Generator raised for the second file of the queue: run() was left by the exception,
   the loop returned nothing and reported no unprocessed file *)
C24_GeneratorExceptionEscapes ==
    /\ pc = "died"
    /\ hist.outcome = "raised"
    /\ Len(hist.generated) = 2
    /\ run_state.completed_files = <<hist.generated[1]>>
    /\ ~hist.loop.returned
    /\ ~TerminalPublished

(* C25 as stated: no failed save_run_state call ends the run; after the failure the run
   goes on to the branch step and to generation. *)
C25_SaveFailureNeverStops == hist.outcome # "save failed"

(* the save after the approval failed and the run ended before the branch step *)
C25_InitialSaveFailureStops ==
    /\ hist.outcome = "save failed"
    /\ hist.saveFailed
    /\ pc = "done"
    /\ hist.store = <<"save">>
    /\ git.calls = <<>>
    /\ hist.generated = <<>>
    /\ "Generating" \notin Range(hist.phases)

(* the push succeeded: only then is the pull request asked for *)
Pushed == <<"pr create", original_branch>> \in Range(git.calls)

FullSuccess == hist.loop.returned /\ hist.loop.unprocessed = <<>> /\ Pushed

(* the run has had a snapshot in the store and has none now *)
SnapshotGone ==
    /\ run_state # NoObject
    /\ hist.snapshots # <<>>
    /\ run_state.run_id \notin DOMAIN disk

(* C26 as stated: the snapshot of a run is deleted only on full success; after a failed
   branch step, a stop with unprocessed files or a failed commit/push it stays in the
   store. *)
C26_DeletedOnlyOnSuccess == SnapshotGone => FullSuccess

(* the queue was drained, the push failed, and the snapshot of the run is gone *)
C26_DeletedAfterPushFailure ==
    /\ SnapshotGone
    /\ hist.loop.returned /\ hist.loop.unprocessed = <<>>
    /\ <<"add">> \in Range(git.calls)
    /\ ~Pushed
    /\ pc = "done"

(* the run has acted on an approve decision *)
ApprovedByUser == hist.review = "approve" /\ pc # "plan_wait"

(* the overrides of the approve payload are in the plan: the posted use_flash_model, and
   the posted context files next to the Planner's own *)
OverridesIn(a) ==
    /\ a.use_flash_model = TRUE
    /\ {"b.py", "c.py"} \subseteq Range(a.relevant_files)
    /\ IsSortedList(a.relevant_files)

(* the branch step succeeded with the first version-control command: a checkout of the
   plan's branch, creating it unless it existed *)
BranchStepDone ==
    /\ git.calls # <<>>
    /\ LET name == run_state.analysis.branch_name
       IN /\ git.calls[1] = IF name \in InitialBranches THEN <<"checkout", name>>
                            ELSE <<"checkout -b", name>>
          /\ name \in git.branches
    /\ "Generating" \in Range(hist.phases)

(* C27: after an approve decision the plan carries the user's overrides; the RunState is
   saved, overrides included, before any version-control command; the first command is
   the checkout of plan.branch_name, creating it unless it exists; the Generator is only
   called and files are only written after that step succeeded; a failed branch step
   ends the run with nothing generated or written. *)
C27_ApproveThenSaveThenBranch ==
    /\ ApprovedByUser => OverridesIn(analysis)
    /\ (ApprovedByUser /\ hist.snapshots # <<>>) => OverridesIn(run_state.analysis)
    /\ (ApprovedByUser /\ run_state.run_id \in DOMAIN disk)
           => OverridesIn(disk[run_state.run_id].analysis)
    /\ (git.calls # <<>> /\ ~hist.resumed) => (InList("save", hist.store)
                                                /\ hist.snapshots # <<>>)
    /\ (hist.generated # <<>> \/ written # <<>>) => BranchStepDone
    /\ hist.outcome = "branch failed" =>
           /\ hist.generated = <<>> /\ written = <<>>
           /\ pc \in {"exit", "done"}
           /\ "Generating" \notin Range(hist.phases)

C27_Witness ==
    /\ ApprovedByUser
    /\ analysis.relevant_files = <<"b.py", "c.py">>
    /\ analysis.branch_name = "dave-bot/saved"
    /\ git.calls # <<>>
    /\ git.calls[1] = <<"checkout", "dave-bot/saved">>
    /\ written # <<>>
    /\ run_state.run_id = "run-new"

(* C28 as stated: every pull request is asked for with the RunState's original_branch as
   its base, in a resumed run as well. *)
C28_PrBaseIsRunOrigin ==
    \A i \in 1..Len(git.calls) :
        git.calls[i][1] = "pr create" => git.calls[i][2] = run_state.original_branch

(* a run saved from branch develop is resumed by a process started on main: the pull
   request is based on main *)
C28_PrBaseIsCurrentBranch ==
    /\ hist.resumed
    /\ run_state.original_branch = "develop"
    /\ original_branch = "main"
    /\ <<"pr create", "main">> \in Range(git.calls)

(* the paths completed before this process: those of the loaded snapshot *)
CompletedBefore == IF hist.resumed THEN Range(Loaded.completed_files) ELSE {}

(* C29 as stated: a path is in completed_files, in generated_code_cache or in a persisted
   snapshot only if its generated content was written to the workspace. *)
C29_CompletedOnlyIfWritten ==
    run_state # NoObject =>
        /\ Range(run_state.completed_files) \ CompletedBefore \subseteq Range(written)
        /\ run_state.generated_code_cache \ CompletedBefore \subseteq Range(written)
        /\ run_state.run_id \in DOMAIN disk =>
               Range(disk[run_state.run_id].completed_files) \ CompletedBefore
                   \subseteq Range(written)

(* the write of a.py failed; a.py is completed, cached and persisted all the same *)
C29_CompletedUnwritten ==
    /\ run_state # NoObject
    /\ ~InList("a.py", written)
    /\ InList("a.py", run_state.completed_files)
    /\ "a.py" \in run_state.generated_code_cache
    /\ run_state.run_id \in DOMAIN disk
    /\ InList("a.py", disk[run_state.run_id].completed_files)
    /\ ~hist.resumed

(* SpecPost: an interactive run whose decisions all come in through do_POST. *)
InitPost == RunInit(0) /\ ~force

NextPost == DoPost \/ SetupFails \/ SetupDone \/ StartupUnhandled

SpecPost == InitPost /\ [][NextPost]_vars

(* C30 as stated: a POST to the route of any kind the orchestrator dispatches on calls
   set_decision with that kind: none of them is answered 404. *)
C30_EveryKindDelivered ==
    \A i \in 1..Len(hist.posts) :
        hist.posts[i].route \in DecisionKinds => hist.posts[i].code = 200

(* start_analysis and resume_run were posted and answered 404: the startup loop has no
   decision it acts on and none of its branches that leave it can be taken *)
C30_StartupNeverLeft ==
    /\ [route |-> "start_analysis", code |-> 404] \in Range(hist.posts)
    /\ [route |-> "resume_run", code |-> 404] \in Range(hist.posts)
    /\ pc = "startup"
    /\ ~decision_made
    /\ ~ENABLED (StartupStartAnalysis \/ StartupResume \/ StartupGenerateTask \/ StartupDelete)

-----------------------------------------------------------------------------
(* SpecPort: the interactive run on a fresh store, started on every bounded state of the
   local ports: some of the first ports taken, or the whole probed range taken. *)

MaxBusy == 2
MaxRetries == 3

StartPorts == {DEFAULT_SERVER_PORT, DEFAULT_SERVER_PORT + 1}

BusyPorts ==
    (SUBSET (DEFAULT_SERVER_PORT..(DEFAULT_SERVER_PORT + MaxBusy - 1)))
    \cup {DEFAULT_SERVER_PORT..(DEFAULT_SERVER_PORT + DefaultMaxRetries - 1),
          DEFAULT_SERVER_PORT..(DEFAULT_SERVER_PORT + DefaultMaxRetries)}

InitPort ==
    /\ RunStart(0)
    /\ ~force
    /\ disk = <<>>
    /\ busy \in BusyPorts
    /\ port \in StartPorts
    /\ actual_port = NoPort

NextPort == Next

SpecPort == InitPort /\ [][NextPort]_vars

(* the lowest port of [start, start + n) that no socket is bound to, NoPort if there is none *)
LowestFree(start, n) ==
    LET free == (start..(start + n - 1)) \ busy
    IN IF free = {} THEN NoPort ELSE CHOOSE p \in free : \A q \in free : p <= q

(* the run is past the probe of an interactive run and every probed port was taken *)
NoPortFound == pc # "setup" /\ ~force /\ LowestFree(port, DefaultMaxRetries) = NoPort

(* C31: find_available_port(start, max_retries) returns the lowest free port of
   [start, start + max_retries), or None when none of them is free; the port the run uses
   is that port, and when there is none the run is over with no server started, no git
   command issued, no file written and no RunState saved. *)
C31_LowestFreePortOrAbort ==
    /\ \A s \in StartPorts, n \in 0..MaxRetries : find_available_port(s, n) = LowestFree(s, n)
    /\ actual_port # NoPort => actual_port = LowestFree(port, DefaultMaxRetries)
    /\ NoPortFound =>
          /\ pc = "done"
          /\ actual_port = NoPort
          /\ ~server
          /\ git.calls = <<>>
          /\ written = <<>>
          /\ hist.store = <<>>
          /\ disk = <<>>

(* a run that found every probed port taken and ended on the error of the probe *)
C31_Witness ==
    /\ NoPortFound
    /\ busy # {}
    /\ published # <<>>
    /\ published[Len(published)] = CliLog("error", <<"no port">>)

-----------------------------------------------------------------------------
(* The resumed run. *)

(* the resumed run has left the branch step *)
ResumedPastBranch == hist.resumed /\ pc # "resume"

(* the snapshot the run was loaded from is in the store as it was loaded *)
SnapshotKept ==
    /\ run_state.run_id \in DOMAIN disk
    /\ Snap(disk[run_state.run_id]) = Loaded

(* C39: a resumed run never invokes the Planner and never waits for a plan review; its task
   is the loaded state's, its first git command is the checkout of the loaded plan's
   branch, and generation, once begun, starts with the remaining files; when the checkout
   fails the run is left with the snapshot in the store, no Generator call and no write. *)
C39_ResumeSkipsPlanning ==
    hist.resumed =>
        /\ hist.roundCalls = 0 /\ hist.planner = <<>>
        /\ hist.review = None
        /\ ~("Planning" \in Range(hist.phases)) /\ ~("PlanReview" \in Range(hist.phases))
        /\ task = run_state.task
        /\ analysis = run_state.analysis
        /\ ResumedPastBranch =>
              /\ git.calls # <<>>
              /\ git.calls[1] = (IF analysis.branch_name \in InitialBranches
                                 THEN <<"checkout", analysis.branch_name>>
                                 ELSE <<"checkout -b", analysis.branch_name>>)
        /\ (ResumedPastBranch /\ hist.generated # <<>>) =>
              (Remaining # <<>> /\ hist.generated[1] = Remaining[1])
        /\ hist.outcome = "branch failed" =>
              /\ SnapshotKept
              /\ hist.generated = <<>>
              /\ written = <<>>
              /\ Len(git.calls) = 1

(* a resumed run whose checkout failed has ended, its snapshot still stored *)
C39_Witness ==
    /\ hist.resumed
    /\ pc = "done"
    /\ hist.outcome = "branch failed"
    /\ task = "saved-task"
    /\ "run-saved" \in DOMAIN disk

-----------------------------------------------------------------------------
(* The events of the generation loop. *)

(* the k-th published event is the event `status` of the loop *)
IsEvent(k, status) == published[k].status = status

(* the calls of save_run_state made so far *)
Saves == Count(hist.store, "save")

(* the done events among the first k published events *)
DonesUpTo(k) == Cardinality({j \in 1..k : IsEvent(j, "done")})

(* every done event of F comes after a writing event of F, with F completed, cached and
   a save_run_state call made for it; every plan_updated event comes right after a done
   event, with nothing but log lines in between *)
FeedOrdered ==
    \A k \in 1..Len(published) :
        /\ IsEvent(k, "done") =>
              /\ \E j \in 1..(k - 1) :
                    IsEvent(j, "writing") /\ published[j].file_path = published[k].file_path
              /\ InList(published[k].file_path, edited_files)
              /\ InList(published[k].file_path, run_state.completed_files)
              /\ published[k].file_path \in run_state.generated_code_cache
              /\ DonesUpTo(k) <= Saves
        /\ IsEvent(k, "plan_updated") =>
              \E j \in 1..(k - 1) :
                  /\ IsEvent(j, "done")
                  /\ \A l \in (j + 1)..(k - 1) : IsEvent(l, "cli_log")

(* every done event is of a file whose content was written to the workspace *)
DoneWritten ==
    \A k \in 1..Len(published) :
        IsEvent(k, "done") => InList(published[k].file_path, written)

(* C32 as stated: a done event of F follows a writing event of F and is published only
   after F's content was written, F was completed and cached and save_run_state was
   called; a plan_updated event follows the done event of the requesting file. *)
C32_DoneAfterWritten == FeedOrdered /\ DoneWritten

(* a done event is on the feed for a file whose content was never written *)
C32_DoneUnwritten ==
    \E k \in 1..Len(published) :
        /\ IsEvent(k, "done")
        /\ ~InList(published[k].file_path, written)
        /\ InList(published[k].file_path, run_state.completed_files)

-----------------------------------------------------------------------------
(* The Generator calls of one generation loop. *)

(* C35 as stated: within one call of the generation loop the Generator is invoked at
   most once per path. *)
C35_GeneratedOncePerPath == NoRepeats(hist.generated)

(* the loop has drained its queue after invoking the Generator twice for the one path
   that generation_order lists twice *)
C35_GeneratedTwice ==
    /\ hist.loop.returned /\ hist.loop.unprocessed = <<>>
    /\ Count(run_state.analysis.generation_order, "c.py") = 2
    /\ Count(hist.generated, "c.py") = 2
    /\ NoRepeats(run_state.completed_files)

-----------------------------------------------------------------------------
(* SpecFair: the run whose orchestrator thread keeps running: every step it can take is
   eventually taken. *)
SpecFair == Init /\ [][Next]_vars /\ WF_vars(Orchestrator)

(* the loop has returned the empty list or the suffix from the file it stopped at *)
LoopReturned ==
    /\ hist.loop.returned
    /\ \/ hist.loop.unprocessed = <<>>
       \/ hist.loop.unprocessed = Unprocessed(files_to_process, idx)

(* the loop was left by an exception of the Generator *)
LoopRaised == GenerationBegun /\ hist.outcome = "raised"

(* no request appends a path that was queued or completed: the appended paths are
   distinct, none is in the seeded queue, and the queue is never longer than the paths *)
QueueGrowthBounded ==
    GenerationBegun =>
        /\ hist.snapshots # <<>>
        /\ NoRepeats(AppendedSinceLoad)
        /\ \A i \in 1..Len(AppendedSinceLoad) :
              ~InList(AppendedSinceLoad[i], hist.snapshots[1].generation_order)
        /\ IsPrefix(AppendedSinceLoad, <<"d.py">>)

(* the loop ends, by a return or by an exception *)
LoopEnds == GenerationBegun ~> (LoopReturned \/ LoopRaised)

(* C36 as stated: for every Generator behaviour the queue's growth is bounded and the loop
   ends with an empty unprocessed list or with the unprocessed suffix. *)
C36_LoopReturns == []QueueGrowthBounded /\ (GenerationBegun ~> LoopReturned)

(* the loop was left by an exception after a call for a queued path: nothing was returned *)
C36_LoopLeftByException ==
    /\ LoopRaised
    /\ pc = "died"
    /\ ~hist.loop.returned
    /\ idx >= 1 /\ idx <= Len(files_to_process)

-----------------------------------------------------------------------------
(* What the UI is sent. *)

(* C33 as stated: the body of every answer of GET /status is the event as it was when it
   was put: its completed_files and processing_queue have their values of publish time. *)
C33_SentAsPublished == delivered # <<>> => sent = delivered[Len(delivered)]

(* the UI was sent a writing event of F whose completed_files holds F, which it did not
   hold when the event was put *)
C33_WritingShowsCompleted ==
    /\ delivered # <<>>
    /\ sent.status = "writing"
    /\ InList(sent.file_path, sent.completed_files)
    /\ delivered[Len(delivered)].file_path = sent.file_path
    /\ ~InList(sent.file_path, delivered[Len(delivered)].completed_files)
    /\ sent.processing_queue = delivered[Len(delivered)].processing_queue

-----------------------------------------------------------------------------
(* set_decision against reset_decision (SpecChannel). *)

(* the orchestrator is outside reset_decision and the HTTP thread outside set_decision *)
ChannelQuiet == ~InReset /\ pc # "reset_clear" /\ httpPc = "idle"

(* C34 as stated: under every interleaving of set_decision with reset_decision and
   wait_for_decision, whenever the event is set the slot holds a posted decision kind, and
   wait_for_decision never returns (None, None). *)
C34_SetMeansPosted ==
    /\ (decision_made /\ ChannelQuiet) => user_decision \in PostRoutes
    /\ \A i \in 1..Len(returns) : returns[i].got[1] # None

(* a decision was accepted after reset_decision had cleared the event and was then wiped
   by the rest of the reset: the next wait returned (None, None) *)
C34_ReturnedNone ==
    \E i \in 1..Len(returns) :
        /\ returns[i].got = <<None, NoData>>
        /\ returns[i].tainted
        /\ returns[i].window # <<>>
        /\ returns[i].window[1][2] \notin dropped

-----------------------------------------------------------------------------
(* SpecReview: ReviewCliManager._execute_review_loop on every bounded review plan, with a
   Reviewer that reviews or asks for context, a Planner that answers each re-analysis with
   any bounded plan, and files that can or cannot be read. *)

MaxReviewLen == 2

(* code_review_agent.py, line 22 *)
MAX_REANALYSIS_RETRIES == 3

ReviewPaths == {"a.py", "b.py"}

ReviewAnalysis(review, context) == [files_to_review |-> review, relevant_context_files |-> context]

ReviewAnalyses == {ReviewAnalysis(r, <<"c.py">>) : r \in SeqsUpTo(ReviewPaths, MaxReviewLen)}

(* what review_file_content returns for a file: a review, or a request for context, whose
   text may be empty *)
FileReview(file_path, more, request) ==
    [file_path |-> file_path, requires_more_context |-> more, context_request |-> request]

ReviewResults(file_path) ==
    {FileReview(file_path, FALSE, ""), FileReview(file_path, TRUE, "more"),
     FileReview(file_path, TRUE, "")}

InitReview ==
    /\ analysis \in ReviewAnalyses
    /\ all_repo_files = RunRepo
    /\ force = TRUE
    /\ status_queue = <<>>
    /\ rcCalls = 0
    /\ rcInput = NoObject
    /\ rcBefore = NoObject
    /\ rcResult = FALSE
    /\ ChannelInit
    /\ pc = "review_enter"
    /\ httpPc = "idle"
    /\ httpReq = NoDecision
    /\ got = NoDecision
    /\ ChHistInit
    /\ RunIdle

reviewLocals == <<analysis, files_to_process, pc, reviewVars>>

(* what the review loop leaves alone *)
reviewRest ==
    <<all_repo_files, force, status_queue, rcHist, channel, httpPc, httpReq, got, chHist,
      runLocals, idx, edited_files, world, feedHist, hist, faults, portVars, sent, teachVars>>

(* lines 352-356: the locals of the loop *)
EnterReviewLoop ==
    /\ pc = "review_enter"
    /\ files_to_process' = analysis.files_to_review
    /\ context_data' = {}
    /\ feedback_for_reanalysis' = ""
    /\ retries' = 0
    /\ all_reviews' = <<>>
    /\ pc' = "review_while"
    /\ UNCHANGED <<analysis, reanalysis_needed, reviewing, rvHist, reviewRest>>

WhileHoldsOneMore(queue, tried) == queue # <<>> /\ tried <= MAX_REANALYSIS_RETRIES + 1

(* line 358: while files_to_process and retries <= MAX_REANALYSIS_RETRIES *)
WhileHolds(queue, tried) == queue # <<>> /\ tried <= MAX_REANALYSIS_RETRIES

ReviewWhile ==
    /\ pc = "review_while"
    /\ pc' = IF WhileHolds(files_to_process, retries) THEN "review_pass" ELSE "review_returned"
    /\ UNCHANGED <<analysis, files_to_process, reviewVars, reviewRest>>

(* line 370: set(analysis.relevant_context_files + files_to_process) *)
FilesForContext(a, queue) == Range(a.relevant_context_files) \cup Range(queue)

(* lines 359-377: the re-analysis when there is feedback, the context read, the pass's flags;
   read_file_content gives the content of some of the files not yet held *)
ReviewBeginPass ==
    /\ pc = "review_pass"
    /\ \E a \in (IF feedback_for_reanalysis # "" THEN ReviewAnalyses ELSE {analysis}) :
          LET queue == IF feedback_for_reanalysis # "" THEN a.files_to_review ELSE files_to_process
          IN /\ analysis' = a
             /\ files_to_process' = queue
             /\ \E read \in SUBSET (FilesForContext(a, queue) \ context_data) :
                   context_data' = context_data \cup read
    /\ rvHist' = IF feedback_for_reanalysis # "" THEN [rvHist EXCEPT !.reanalyses = @ + 1] ELSE rvHist
    /\ feedback_for_reanalysis' = ""
    /\ reanalysis_needed' = FALSE
    /\ reviewing' = 0
    /\ pc' = "review_for"
    /\ UNCHANGED <<retries, all_reviews, reviewRest>>

(* lines 379-402: one turn of the for loop *)
ReviewFile ==
    /\ pc = "review_for"
    /\ reviewing < Len(files_to_process)
    /\ LET file_to_review == files_to_process[reviewing + 1]
       IN IF file_to_review \notin context_data
          THEN /\ reviewing' = reviewing + 1
               /\ UNCHANGED <<pc, retries, feedback_for_reanalysis, all_reviews, reanalysis_needed,
                              rvHist>>
          ELSE \E review_result \in ReviewResults(file_to_review) :
                  /\ rvHist' = [rvHist EXCEPT !.calls = Append(@, review_result)]
                  /\ IF review_result.requires_more_context
                     THEN /\ feedback_for_reanalysis' = review_result.context_request
                          /\ retries' = retries + 1
                          /\ reanalysis_needed' = TRUE
                          /\ pc' = "review_end"
                          /\ UNCHANGED <<all_reviews, reviewing>>
                     ELSE /\ all_reviews' = Append(all_reviews, review_result)
                          /\ reviewing' = reviewing + 1
                          /\ UNCHANGED <<pc, retries, feedback_for_reanalysis, reanalysis_needed>>
    /\ UNCHANGED <<analysis, files_to_process, context_data, reviewRest>>

(* line 404: successfully_reviewed_files *)
SuccessfullyReviewed(reviews) == {reviews[i].file_path : i \in 1..Len(reviews)}

(* line 405: the files of the analysis with no review *)
Unreviewed(a, reviews) ==
    SelectSeq(a.files_to_review, LAMBDA f : f \notin SuccessfullyReviewed(reviews))

(* lines 404-408: after the for loop *)
ReviewEndPass ==
    /\ \/ pc = "review_end"
       \/ pc = "review_for" /\ reviewing >= Len(files_to_process)
    /\ files_to_process' = Unreviewed(analysis, all_reviews)
    /\ pc' = IF reanalysis_needed THEN "review_while" ELSE "review_returned"
    /\ UNCHANGED <<analysis, reviewVars, reviewRest>>

NextReview == EnterReviewLoop \/ ReviewWhile \/ ReviewBeginPass \/ ReviewFile \/ ReviewEndPass

(* the thread running the loop runs on *)
SpecReview == InitReview /\ [][NextReview]_vars /\ WF_vars(NextReview)

(* the loop has returned (all_reviews, files_to_process) *)
ReviewReturned == pc = "review_returned"

(* the reviews the Reviewer has given, in order *)
ReviewsObtained == SelectSeq(rvHist.calls, LAMBDA r : ~r.requires_more_context)

(* C37: the review loop makes at most MAX_REANALYSIS_RETRIES re-analyses, always returns,
   and returns the reviews obtained with, as unprocessed, the files of the latest analysis'
   files_to_review that have no review, the unreadable ones included. *)
C37_ReviewLoopBounded ==
    /\ [](rvHist.reanalyses <= MAX_REANALYSIS_RETRIES)
    /\ <>ReviewReturned
    /\ [](ReviewReturned =>
             /\ all_reviews = ReviewsObtained
             /\ files_to_process = Unreviewed(analysis, all_reviews)
             /\ \A f \in Range(analysis.files_to_review) :
                   InList(f, files_to_process) <=> f \notin SuccessfullyReviewed(all_reviews))

(* the loop returned after three re-analyses and a fourth context failure, with a review
   and with an unprocessed file *)
C37_Witness ==
    /\ ReviewReturned
    /\ rvHist.reanalyses = MAX_REANALYSIS_RETRIES
    /\ retries = MAX_REANALYSIS_RETRIES + 1
    /\ all_reviews # <<>>
    /\ files_to_process # <<>>

(* the Reviewer was not called for a path after it had reviewed that path *)
NotReviewedAgain ==
    \A i, j \in 1..Len(rvHist.calls) :
        (i < j /\ ~rvHist.calls[i].requires_more_context)
            => rvHist.calls[j].file_path # rvHist.calls[i].file_path

(* C38 as stated: the loop returns at most one FileReview per path, no file is reviewed
   again after it was reviewed, and no path is both reviewed and unprocessed. *)
C38_OneReviewPerPath ==
    /\ NotReviewedAgain
    /\ \A i, j \in 1..Len(all_reviews) : all_reviews[i].file_path = all_reviews[j].file_path => i = j
    /\ ReviewReturned => Range(files_to_process) \cap SuccessfullyReviewed(all_reviews) = {}

(* the loop returned two reviews of a.py: one from before a context failure on b.py, one
   from the pass over the re-analysis that listed a.py again *)
C38_ReviewedTwice ==
    /\ ReviewReturned
    /\ rvHist.reanalyses = 1
    /\ Len(all_reviews) >= 2
    /\ all_reviews[1].file_path = "a.py" /\ all_reviews[2].file_path = "a.py"
    /\ rvHist.calls[2] = FileReview("b.py", TRUE, "more")
    /\ analysis.files_to_review = <<"a.py", "b.py">>

-----------------------------------------------------------------------------
(* SpecTeach: TeachingBotWebServer. The server thread handles one POST /send_message at a
   time, statement by statement; the conversation thread waits, takes the message, clears
   the event and handles the turn. *)

MaxMessages == 4

InitTeach ==
    /\ analysis = NoObject
    /\ all_repo_files = RunRepo
    /\ force = FALSE
    /\ status_queue = <<>>
    /\ rcCalls = 0
    /\ rcInput = NoObject
    /\ rcBefore = NoObject
    /\ rcResult = FALSE
    /\ ChannelInit
    /\ pc = "teach_wait"
    /\ httpPc = "idle"
    /\ httpReq = NoDecision
    /\ got = NoDecision
    /\ ChHistInit
    /\ RunIdle

(* what the teaching-bot steps leave alone *)
teachRest ==
    <<planVars, rcHist, channel, got, chHist, runVars, portVars, sent, reviewVars>>

AcceptsAlways == TRUE

(* line 47: if not self.user_message_event.is_set() *)
Accepts == ~user_message_event

(* do_POST /send_message calls _add_user_message(message): the test of the event; the
   n-th message posted is the text of n *)
AddUserMessageTest ==
    /\ httpPc = "idle"
    /\ Len(tbHist.posts) < MaxMessages
    /\ LET text == ToString(Len(tbHist.posts) + 1)
       IN /\ httpReq' = <<"send_message", text>>
          /\ tbHist' = [tbHist EXCEPT
                          !.posts = Append(@, [text |-> text, accepted |-> Accepts,
                                               pending |-> Len(user_message_queue)]),
                          !.accepted = IF Accepts THEN Append(@, text) ELSE @]
    /\ httpPc' = IF Accepts THEN "put_user_message" ELSE "idle"
    /\ UNCHANGED <<pc, user_message_queue, user_message_event, message, teachRest>>

(* line 48: self.user_message_queue.put(message) *)
AddUserMessagePut ==
    /\ httpPc = "put_user_message"
    /\ user_message_queue' = Append(user_message_queue, httpReq[2])
    /\ httpPc' = "set_user_message_event"
    /\ UNCHANGED <<pc, httpReq, user_message_event, message, tbHist, teachRest>>

(* line 49: self.user_message_event.set() *)
AddUserMessageSet ==
    /\ httpPc = "set_user_message_event"
    /\ user_message_event' = TRUE
    /\ httpPc' = "idle"
    /\ UNCHANGED <<pc, httpReq, user_message_queue, message, tbHist, teachRest>>

(* wait_for_user_message, line 40: self.user_message_event.wait() *)
WaitUserEvent ==
    /\ pc = "teach_wait"
    /\ user_message_event
    /\ pc' = "teach_get"
    /\ UNCHANGED <<httpPc, httpReq, teachVars, teachRest>>

(* line 41: message = self.user_message_queue.get(), which blocks on an empty queue *)
WaitUserGet ==
    /\ pc = "teach_get"
    /\ user_message_queue # <<>>
    /\ LET g == QueueGet(user_message_queue)
       IN /\ message' = g.item
          /\ user_message_queue' = g.rest
    /\ pc' = "teach_clear"
    /\ UNCHANGED <<httpPc, httpReq, user_message_event, tbHist, teachRest>>

(* lines 42-43: self.user_message_event.clear(); return message *)
WaitUserClear ==
    /\ pc = "teach_clear"
    /\ user_message_event' = FALSE
    /\ tbHist' = [tbHist EXCEPT !.returned = Append(@, message)]
    /\ pc' = "teach_turn"
    /\ UNCHANGED <<httpPc, httpReq, user_message_queue, message, teachRest>>

(* _conversation_loop, lines 116-130: the turn, then the next wait *)
ConversationTurn ==
    /\ pc = "teach_turn"
    /\ pc' = "teach_wait"
    /\ UNCHANGED <<httpPc, httpReq, teachVars, teachRest>>

NextTeach ==
    \/ AddUserMessageTest \/ AddUserMessagePut \/ AddUserMessageSet
    \/ WaitUserEvent \/ WaitUserGet \/ WaitUserClear \/ ConversationTurn

SpecTeach == InitTeach /\ [][NextTeach]_vars

(* the message wait_for_user_message has taken and not yet returned *)
Taken == IF pc = "teach_clear" THEN <<message>> ELSE <<>>

(* the message _add_user_message has accepted and not yet put *)
BeingPut == IF httpPc = "put_user_message" THEN <<httpReq[2]>> ELSE <<>>

(* C40: at most one user message is pending; a message posted while one is pending is
   discarded; the accepted messages are returned by wait_for_user_message once each, in
   the order accepted; after the event was set the queue.get finds a message. *)
C40_SinglePendingMessage ==
    /\ Len(user_message_queue) <= 1
    /\ \A i \in 1..Len(tbHist.posts) : tbHist.posts[i].pending > 0 => ~tbHist.posts[i].accepted
    /\ tbHist.accepted = tbHist.returned \o Taken \o user_message_queue \o BeingPut
    /\ NoRepeats(tbHist.returned)
    /\ pc = "teach_get" => user_message_queue # <<>>

(* the second message was posted while the first was pending and was discarded, the first
   and the third were returned, in that order *)
C40_Witness ==
    /\ tbHist.returned = <<"1", "3">>
    /\ Len(tbHist.posts) >= 3
    /\ tbHist.posts[2].pending = 1 /\ ~tbHist.posts[2].accepted

====
